---- MODULE Spec2Model ----
(***************************************************************************)
(* Model of runner-cloudflared-tunnel: configuration validation and        *)
(* planning (core/config.js, core/plan.js), bounded retry and the HTTP     *)
(* adapter (utils/retry.js, adapters/http-adapter.js), the file-system     *)
(* adapter (adapters/fs-adapter.js), the installer                         *)
(* (core/cloudflared-installer.js), the Cloudflare client                  *)
(* (core/cloudflare-client.js), the orchestrator TunnelManager             *)
(* (core/tunnel-manager.js, current revision), the library entry point     *)
(* startTunnels and the command line (runTunnelStart, handleError).  The   *)
(* provider (tunnel list, DNS records, zones), the local artifacts         *)
(* (credentials, config, PID file, daemon log) and the detached daemon     *)
(* are the environment.                                                    *)
(***************************************************************************)
EXTENDS Integers, Sequences, FiniteSets, TLC

(* ------------------------------ bounds --------------------------------- *)
MaxCalls == 3
MaxServices == 2
MaxVerifyRetries == 2
MaxAppends == 1
MaxAttempts == 3
MaxChunks == 2

(* ------------------------- program constants --------------------------- *)
TailLines == 20
DefaultDelay == 1000
DefaultBackoff == 2
RequestMaxAttempts == 3
RequestDelay == 2000

(* ------------------------------ values --------------------------------- *)
Null == <<>>
NoError == [name |-> "", from |-> "", seq |-> 0]
NoTunnel == [id |-> 0, name |-> ""]
NoInfo == [id |-> 0, name |-> "", tunnelSecret |-> Null]
NoZone == ""
NoFile == "<absent>"
AccountId == "acc"
ApiKey == "key"
Email == "dev@example.com"
EnvToken == <<"envtoken", 0>>

ExampleCom == <<"example", "com">>
SshHost == <<"ssh", "example", "com">>
WebHost == <<"web", "example", "com">>
AppHost == <<"app", "other", "org">>
Hostnames == {SshHost, WebHost, AppHost}
TunnelNames == {"ci", "old", "db"}

\* zones the provider lists for the account
ProviderZones == << [id |-> "z1", name |-> ExampleCom] >>

\* kinds of error a remote request can end with (utils/errors)
FailKinds == {"NetworkError", "CloudflareApiError"}

Ev(op, key) == [op |-> op, key |-> key]

Err(kind, from, n) == [name |-> kind, from |-> from, seq |-> n]

(* ------------------------- pure helper functions ----------------------- *)
\* Array.prototype.find: index of the first element satisfying the test, 0 if none
FirstIndex(seq, Test(_)) ==
  IF \E i \in 1..Len(seq) : Test(seq[i])
    THEN CHOOSE i \in 1..Len(seq) : Test(seq[i]) /\ \A j \in 1..(i - 1) : ~Test(seq[j])
    ELSE 0

\* parts.slice(-2): the last two labels (all of them when there are fewer)
LastTwoLabels(labels) ==
  IF Len(labels) <= 2 THEN labels ELSE SubSeq(labels, Len(labels) - 1, Len(labels))

(* ------------------------------ utils/retry ---------------------------- *)
\* What the k-th invocation of the operation does is fn[k]: it resolves with
\* value (ok) or rejects with err.
Resolves(v) == [ok |-> TRUE, value |-> << v >>, err |-> NoError]
Rejects(e) == [ok |-> FALSE, value |-> <<>>, err |-> e]

\* Math.pow(backoff, n) for n >= 0
RECURSIVE Pow(_, _)
Pow(b, n) == IF n = 0 THEN 1 ELSE b * Pow(b, n - 1)

WaitTime_fixed(delay, backoff, attempt) == delay

\* const waitTime = delay * Math.pow(backoff, attempt - 1)
WaitTime(delay, backoff, attempt) == delay * Pow(backoff, attempt - 1)

InLoop_exclusive(attempt, maxAttempts) == attempt < maxAttempts

\* for (let attempt = 1; attempt <= maxAttempts; attempt++)
InLoop(attempt, maxAttempts) == attempt <= maxAttempts

LastError_first(lastError, error) == IF lastError = NoError THEN error ELSE lastError

\* catch (error) { lastError = error; ... }
LastError(lastError, error) == error

\* the loop of retry() from iteration `attempt` on; retried lists the calls
\* onRetry(error, attempt, waitTime), each followed by sleep(slept)
RECURSIVE retryLoop(_, _, _, _, _, _, _)
retryLoop(fn, maxAttempts, delay, backoff, attempt, lastError, retried) ==
  IF ~InLoop(attempt, maxAttempts)
    THEN [threw |-> TRUE, value |-> <<>>, error |-> lastError,
          invocations |-> attempt - 1, retried |-> retried]
  ELSE IF fn[attempt].ok
    THEN [threw |-> FALSE, value |-> fn[attempt].value, error |-> NoError,
          invocations |-> attempt, retried |-> retried]
  ELSE IF attempt = maxAttempts
    THEN [threw |-> TRUE, value |-> <<>>, error |-> LastError(lastError, fn[attempt].err),
          invocations |-> attempt, retried |-> retried]
  ELSE retryLoop(fn, maxAttempts, delay, backoff, attempt + 1,
                 LastError(lastError, fn[attempt].err),
                 Append(retried, [error |-> fn[attempt].err, attempt |-> attempt,
                                  waitTime |-> WaitTime(delay, backoff, attempt),
                                  slept |-> WaitTime(delay, backoff, attempt)]))

\* retry(fn, { maxAttempts, delay, backoff, onRetry })
retry(fn, maxAttempts, delay, backoff) ==
  retryLoop(fn, maxAttempts, delay, backoff, 1, NoError, <<>>)

(* ---------------------------- http-adapter ----------------------------- *)
\* what fetch() resolves with: the HTTP status class and the kind of body
Response(httpOk, body) == [httpOk |-> httpOk, body |-> body]

Bodies == {"success", "failure", "invalid"}

\* what one fetchWithTimeout() can do: resolve with a response, or reject
\* (a timeout becomes NetworkError, anything else is rethrown)
FetchOutcomes ==
  { Resolves(Response(h, b)) : h \in BOOLEAN, b \in Bodies }
  \cup { Rejects(Err(e, "fetch", 0)) : e \in {"NetworkError", "TypeError"} }

\* response.status of a response that is ok, or not
StatusOf(resp) == IF resp.httpOk THEN 200 ELSE 500

\* data.errors?.[0]?.message || `HTTP ${response.status}: ...`: a body with
\* success false lists its errors, a body with success true lists none
MessageOf(resp) == IF resp.body = "failure" THEN "errors[0].message" ELSE "HTTP 500"

\* the operation retry() runs: () => fetchWithTimeout(url, requestOptions, timeout)
Attempt(fetched) == fetched

\* cloudflareRequest(endpoint, options): the fetch under retry, then
\* response.json(), the status check and the success flag; fetches[k] is what
\* the k-th fetch does
cloudflareRequest(fetches) ==
  LET r == retry([k \in DOMAIN fetches |-> Attempt(fetches[k])],
                 RequestMaxAttempts, RequestDelay, DefaultBackoff)
      resp == r.value[1]
      Failed(kind, statusCode, message) ==
        [ok |-> FALSE, kind |-> kind, fetches |-> r.invocations,
         statusCode |-> statusCode, message |-> message]
  IN  IF r.threw THEN Failed("NetworkError", 0, "")
      ELSE IF resp.body = "invalid" THEN Failed("NetworkError", 0, "")
      ELSE IF ~resp.httpOk \/ resp.body = "failure"
        THEN Failed("CloudflareApiError", StatusOf(resp), MessageOf(resp))
      ELSE [ok |-> TRUE, kind |-> "", fetches |-> r.invocations,
            statusCode |-> 0, message |-> ""]

\* every way the fetches of one request can go
FetchPatterns == [1..RequestMaxAttempts -> FetchOutcomes]

\* every way one request can end: how, and after how many fetches
RequestOutcomes == { cloudflareRequest(f) : f \in FetchPatterns }

\* how many fetches a request takes when it ends as given
Fetches(ok, kind) ==
  { r.fetches : r \in { q \in RequestOutcomes : q.ok = ok /\ (~ok => q.kind = kind) } }

\* the fetches on the wire for the requests reqs, the i-th sent counts[i] times
RECURSIVE OnTheWire(_, _)
OnTheWire(reqs, counts) ==
  IF reqs = <<>> THEN <<>>
  ELSE OnTheWire(SubSeq(reqs, 1, Len(reqs) - 1), counts)
       \o [k \in 1..counts[Len(reqs)] |-> reqs[Len(reqs)]]

(* --------------------------- CloudflareClient -------------------------- *)
\* listTunnels: response.result || []
listTunnels(tuns) == tuns

getTunnelByName_skip(tuns, name) == NoTunnel

\* getTunnelByName: tunnels.find(t => t.name === name) || null
getTunnelByName(tuns, name) ==
  LET i == FirstIndex(listTunnels(tuns), LAMBDA t : t.name = name)
  IN IF i = 0 THEN NoTunnel ELSE tuns[i]

\* generateTunnelSecret: a fresh random value, here tagged by the tunnel it is sent with
generateTunnelSecret(n) == <<"secret", n>>

\* the provider's answer to POST cfd_tunnel: a new tunnel with a fresh id
ProviderNewTunnel(tuns, name) == [id |-> Len(tuns) + 1, name |-> name]

\* the provider's answer to GET cfd_tunnel/<id>/token
ProviderToken(id) == <<"token", id>>

\* Outcomes of getOrCreateTunnel(name) against the tunnel list tuns.
\* Each outcome: ok, the error thrown, the returned object, the provider's
\* tunnel list afterwards and the requests issued.
getOrCreateTunnel(tuns, name, n) ==
  LET found == getTunnelByName(tuns, name)
      lookup == << Ev("GET tunnels", <<>>) >>
      fresh == ProviderNewTunnel(tuns, name)
      secret == generateTunnelSecret(fresh.id)
  IN  { [ok |-> FALSE, err |-> Err(k, "listTunnels", n), info |-> NoInfo,
         tuns |-> tuns, reqs |-> lookup] : k \in FailKinds }
      \cup
      (IF found # NoTunnel
         THEN { [ok |-> TRUE, err |-> NoError,
                 info |-> [id |-> found.id, name |-> found.name, tunnelSecret |-> Null],
                 tuns |-> tuns, reqs |-> lookup] }
         ELSE { [ok |-> FALSE, err |-> Err(k, "createTunnel", n), info |-> NoInfo,
                 tuns |-> tuns, reqs |-> lookup \o << Ev("POST tunnel", <<>>) >>]
                : k \in FailKinds }
              \cup
              { [ok |-> TRUE, err |-> NoError,
                 info |-> [id |-> fresh.id, name |-> fresh.name, tunnelSecret |-> secret],
                 tuns |-> Append(tuns, fresh),
                 reqs |-> lookup \o << Ev("POST tunnel", <<>>) >>] })

listDnsRecords_none(recs, zoneId) == <<>>

\* listDnsRecords(zoneId): the records of that zone, in the provider's order
listDnsRecords(recs, zoneId) == SelectSeq(recs, LAMBDA r : r.zone = zoneId)

getDnsRecordByName_skip(recs, zoneId, name) == 0

\* getDnsRecordByName: records.find(r => r.name === name) || null (0 = null)
getDnsRecordByName(recs, zoneId, name) ==
  FirstIndex(listDnsRecords(recs, zoneId), LAMBDA r : r.name = name)

getZoneIdByDomain_fallThrough(cfg, domain, n) ==
  LET byName == FirstIndex(ProviderZones, LAMBDA z : z.name = cfg.zoneName)
      rootDomain == LastTwoLabels(domain)
      byRoot == FirstIndex(ProviderZones, LAMBDA z : z.name = rootDomain)
      req == << Ev("GET zones", <<>>) >>
  IN  IF cfg.zoneId # NoZone
        THEN { [ok |-> TRUE, err |-> NoError, zoneId |-> cfg.zoneId, reqs |-> <<>>] }
        ELSE { [ok |-> FALSE, err |-> Err(k, "getZoneIdByDomain", n), zoneId |-> NoZone,
                reqs |-> req] : k \in FailKinds }
             \cup
             { [ok |-> TRUE, err |-> NoError, reqs |-> req,
                zoneId |-> IF cfg.zoneName # Null /\ byName # 0
                             THEN ProviderZones[byName].id
                             ELSE (IF byRoot = 0 THEN NoZone ELSE ProviderZones[byRoot].id)] }

\* Outcomes of getZoneIdByDomain(domain): configured id, else configured
\* name matched against the zone list, else the root-domain guess.
getZoneIdByDomain(cfg, domain, n) ==
  LET byName == FirstIndex(ProviderZones, LAMBDA z : z.name = cfg.zoneName)
      rootDomain == LastTwoLabels(domain)
      byRoot == FirstIndex(ProviderZones, LAMBDA z : z.name = rootDomain)
      req == << Ev("GET zones", <<>>) >>
  IN  IF cfg.zoneId # NoZone
        THEN { [ok |-> TRUE, err |-> NoError, zoneId |-> cfg.zoneId, reqs |-> <<>>] }
        ELSE { [ok |-> FALSE, err |-> Err(k, "getZoneIdByDomain", n), zoneId |-> NoZone,
                reqs |-> req] : k \in FailKinds }
             \cup
             { [ok |-> TRUE, err |-> NoError, reqs |-> req,
                zoneId |-> IF cfg.zoneName # Null
                             THEN (IF byName = 0 THEN NoZone ELSE ProviderZones[byName].id)
                             ELSE (IF byRoot = 0 THEN NoZone ELSE ProviderZones[byRoot].id)] }

CnameFor_noId(hostname, tunnelId) ==
  [type |-> "CNAME", name |-> hostname, content |-> <<0, "cfargotunnel.com">>]

\* the CNAME the client asks the provider to create
CnameFor(hostname, tunnelId) ==
  [type |-> "CNAME", name |-> hostname, content |-> <<tunnelId, "cfargotunnel.com">>]

\* Outcomes of getOrCreateDnsRecord(hostname, tunnelId) against the records recs.
getOrCreateDnsRecord(cfg, recs, hostname, tunnelId, n) ==
  LET domain == LastTwoLabels(hostname)
      zoneOutcomes == getZoneIdByDomain(cfg, domain, n)
      list == << Ev("GET dns", hostname) >>
      post == << Ev("POST dns", hostname) >>
      wanted == CnameFor(hostname, tunnelId)
  IN  UNION { IF ~z.ok
                THEN { [ok |-> FALSE, err |-> z.err, recs |-> recs, reqs |-> z.reqs] }
              ELSE IF z.zoneId = NoZone
                THEN { [ok |-> FALSE, err |-> Err("CloudflareApiError", "zoneNotFound", n),
                        recs |-> recs, reqs |-> z.reqs] }
              ELSE
                { [ok |-> FALSE, err |-> Err(k, "listDnsRecords", n), recs |-> recs,
                   reqs |-> z.reqs \o list] : k \in FailKinds }
                \cup
                (IF getDnsRecordByName(recs, z.zoneId, hostname) # 0
                   THEN { [ok |-> TRUE, err |-> NoError, recs |-> recs,
                           reqs |-> z.reqs \o list] }
                   ELSE { [ok |-> FALSE, err |-> Err(k, "createDnsRecord", n), recs |-> recs,
                           reqs |-> z.reqs \o list \o post] : k \in FailKinds }
                        \cup
                        { [ok |-> TRUE, err |-> NoError,
                           recs |-> Append(recs, [zone |-> z.zoneId, type |-> wanted.type,
                                                  name |-> wanted.name,
                                                  content |-> wanted.content]),
                           reqs |-> z.reqs \o list \o post] })
            : z \in zoneOutcomes }

(* ------------------------------- state --------------------------------- *)
VARIABLES
  config,      \* the configuration of the run, with its plan (immutable)
  tunnels,     \* provider: the account's tunnel list
  dnsRecords,  \* provider: DNS records, in list order
  credFiles,   \* local: credentials files, one per tunnel id
  configFile,  \* local: config.yml (<<>> when absent)
  pidFile,     \* local: text of cloudflared.pid (NoFile when absent)
  log,         \* local: cloudflared.log, appended to by every daemon
  alive,       \* pids of running daemon processes
  appended,    \* lines the daemons appended during this run
  run,         \* number of the current run
  pc,          \* position of the orchestrator in the current run
  idx,         \* index of the service whose DNS record is reconciled next
  tunnelInfo,  \* result of getOrCreateTunnel in this run
  token,       \* token used as fallback credential in this run
  tunnelData,  \* this.tunnelData (<<>> when null)
  trace,       \* steps taken and requests issued in this run, in order
  thrown,      \* the error raised by the failing step of this run
  rejected,    \* the error the run rejected with
  report,      \* the report returned by startTunnels (<<>> when none)
  attempt,     \* loop counter of verifyTunnels
  obs,         \* what each verification attempt observed
  surfaced,    \* log segments written to the error log as "Last logs"
  calls,       \* the getOrCreateTunnel calls a client made, with their results
  wire,        \* the HTTP requests sent to the provider, one entry per fetch
  args,        \* arguments of the function called on its own (<<>> when none)
  ret,         \* what that call returned or threw (<<>> before it ends)
  exitCode,    \* the code the CLI process exited with (<<>> while it runs)
  disk,        \* the files a call of the fs adapter works on, as written so far
  history      \* outcome of the earlier run: how it ended, which DNS steps warned

vars == << config, tunnels, dnsRecords, credFiles, configFile, pidFile, log, alive,
           appended, run, pc, idx, tunnelInfo, token, tunnelData, trace, thrown,
           rejected, report, attempt, obs, surfaced, calls, wire, args, ret, exitCode, disk,
           history >>

providerVars == << tunnels, dnsRecords >>
fileVars == << credFiles, configFile, pidFile >>
daemonVars == << log, alive, appended >>
verifyVars == << attempt, obs, surfaced >>
callVars == << wire, args, ret, exitCode, disk >>

(* ------------------------------- inputs -------------------------------- *)
\* the port each upstream listens on
PortOf(hostname) ==
  CASE hostname = SshHost -> "22" [] hostname = WebHost -> "443" [] OTHER -> "8080"

\* parseInput: CLOUDFLARED_TUNNEL_<i> = name:hostname:ip:port, all kept as text
Tunnel(name, hostname, ip, port) ==
  [name |-> name, hostname |-> hostname, ip |-> ip, port |-> port]

Service(name, hostname) == Tunnel(name, hostname, "localhost", PortOf(hostname))

\* what one CLOUDFLARED_TUNNEL_<i> can declare: any name and hostname, or a bad port
TunnelEntries ==
  { Service(nm, h) : nm \in TunnelNames, h \in Hostnames }
  \cup { Tunnel("ci", SshHost, "localhost", p) : p \in {"0", "65536", "junk"} }

\* what CLOUDFLARED_TUNNEL_1..n can declare: names and hostnames may repeat
TunnelLists == UNION { [1..n -> TunnelEntries] : n \in 1..MaxServices }

ZoneConfigs ==
  { [zoneId |-> NoZone, zoneName |-> Null],
    [zoneId |-> "z1", zoneName |-> Null],
    [zoneId |-> NoZone, zoneName |-> ExampleCom] }

plan_lastName(tuns) ==
  [tunnelName |-> IF Len(tuns) = 0 THEN "" ELSE tuns[Len(tuns)].name,
   services |-> [i \in 1..Len(tuns) |->
                   [name |-> tuns[i].name, hostname |-> tuns[i].hostname,
                    ip |-> tuns[i].ip, port |-> tuns[i].port]],
   totalServices |-> Len(tuns)]

\* core/plan.js: one tunnel, named after the first service, fronting all services
plan(tuns) ==
  [tunnelName |-> IF Len(tuns) = 0 THEN "" ELSE tuns[1].name,
   services |-> [i \in 1..Len(tuns) |->
                   [name |-> tuns[i].name, hostname |-> tuns[i].hostname,
                    ip |-> tuns[i].ip, port |-> tuns[i].port]],
   totalServices |-> Len(tuns)]

\* the configuration parseInput returns, with the plan startTunnels adds to it
Config(tuns, key, email, account, tok, z, r) ==
  [apiKey |-> key, email |-> email, accountId |-> account, tunnels |-> tuns,
   plan |-> plan(tuns), tunnelToken |-> tok,
   zoneId |-> z.zoneId, zoneName |-> z.zoneName, verifyRetries |-> r]

Configs(retries) ==
  { Config(tuns, ApiKey, Email, account, tok, z, r)
    : tuns \in TunnelLists, account \in {AccountId, ""}, tok \in {Null, EnvToken},
      z \in ZoneConfigs, r \in retries }

InitialTunnels ==
  { << [id |-> 1, name |-> "old"] >>,
    << [id |-> 1, name |-> "old"], [id |-> 2, name |-> "ci"] >> }

InitialDnsRecords ==
  { <<>>,
    << [zone |-> "z1", type |-> "A", name |-> SshHost, content |-> <<0, "192.0.2.1">>] >> }

EmptyLog == [lines |-> 0, partial |-> FALSE, markers |-> {}]

(* --------------------------- TunnelManager ----------------------------- *)
\* validation, then the awaited steps of execute() and processTunnel(), in
\* program order
Pipeline ==
  << "validate", "install", "dirs", "tunnel", "token", "creds", "dns", "store",
     "config", "start", "verify", "verified" >>

NextStep_dnsLast(step) ==
  CASE step = "creds" -> "store"
    [] step = "store" -> "config"
    [] step = "config" -> "start"
    [] step = "start" -> "dns"
    [] step = "dns" -> "verify"
    [] OTHER -> Pipeline[(CHOOSE i \in 1..(Len(Pipeline) - 1) : Pipeline[i] = step) + 1]

\* the step that follows a completed step
NextStep(step) ==
  Pipeline[(CHOOSE i \in 1..(Len(Pipeline) - 1) : Pipeline[i] = step) + 1]

AfterStep_swallow(step, threw) == NextStep(step)

\* execute() and processTunnel() have no try/catch: a step that throws ends the run
AfterStep(step, threw) == IF threw THEN "failed" ELSE NextStep(step)

Propagate_wrap(err) == [name |-> "Error", from |-> err.from, seq |-> err.seq]

\* the error a throwing step raises is the one execute() rejects with
Propagate(err) == err

setupDnsRecord_rethrow(o) == [threw |-> ~o.ok, err |-> o.err, warned |-> FALSE]

\* setupDnsRecord: try { await getOrCreateDnsRecord } catch { warn }
setupDnsRecord(o) == [threw |-> FALSE, err |-> NoError, warned |-> ~o.ok]

Step(op) == Ev(op, <<>>)

Throw(step, err) ==
  /\ pc' = AfterStep(step, TRUE)
  /\ thrown' = err
  /\ rejected' = IF AfterStep(step, TRUE) = "failed" THEN Propagate(err) ELSE rejected

\* installer.install(): already installed, installed now, or ProcessError
Install ==
  /\ pc = "install"
  /\ \E ok \in BOOLEAN :
       /\ trace' = Append(trace, Step("install"))
       /\ IF ok
            THEN pc' = AfterStep("install", FALSE) /\ UNCHANGED << thrown, rejected >>
            ELSE Throw("install", Err("ProcessError", "install", Len(trace) + 1))
  /\ UNCHANGED << config, callVars, providerVars, fileVars, daemonVars, verifyVars, run, idx,
                  tunnelInfo, token, tunnelData, report, calls, history >>

\* setupDirectories()
SetupDirectories ==
  /\ pc = "dirs"
  /\ trace' = Append(trace, Step("dirs"))
  /\ pc' = AfterStep("dirs", FALSE)
  /\ UNCHANGED << config, callVars, providerVars, fileVars, daemonVars, verifyVars, run, idx,
                  tunnelInfo, token, tunnelData, thrown, rejected, report, calls, history >>

\* processTunnel: tunnelInfo = await this.client.getOrCreateTunnel(plan.tunnelName)
ReconcileTunnel ==
  /\ pc = "tunnel"
  /\ \E o \in getOrCreateTunnel(tunnels, config.plan.tunnelName, Len(trace) + 1) :
       /\ trace' = Append(trace, Step("tunnel")) \o o.reqs
       /\ tunnels' = o.tuns
       /\ IF o.ok
            THEN /\ tunnelInfo' = o.info
                 /\ pc' = AfterStep("tunnel", FALSE)
                 /\ UNCHANGED << thrown, rejected >>
            ELSE /\ Throw("tunnel", o.err)
                 /\ UNCHANGED tunnelInfo
  /\ UNCHANGED << config, callVars, dnsRecords, fileVars, daemonVars, verifyVars, run, idx,
                  token, tunnelData, report, calls, history >>

\* processTunnel: the configured token, else await this.client.getTunnelToken(id)
FetchToken ==
  /\ pc = "token"
  /\ IF config.tunnelToken # Null
       THEN /\ token' = config.tunnelToken
            /\ trace' = Append(trace, Step("token"))
            /\ pc' = AfterStep("token", FALSE)
            /\ UNCHANGED << thrown, rejected >>
       ELSE \/ /\ token' = ProviderToken(tunnelInfo.id)
               /\ trace' = trace \o << Step("token"), Ev("GET token", <<>>) >>
               /\ pc' = AfterStep("token", FALSE)
               /\ UNCHANGED << thrown, rejected >>
            \/ \E k \in FailKinds :
                 /\ trace' = trace \o << Step("token"), Ev("GET token", <<>>) >>
                 /\ Throw("token", Err(k, "getTunnelToken", Len(trace) + 1))
                 /\ UNCHANGED token
  /\ UNCHANGED << config, callVars, providerVars, fileVars, daemonVars, verifyVars, run, idx,
                  tunnelInfo, tunnelData, report, calls, history >>

Credentials_tokenOnly(cfg, info, tok) ==
  [AccountTag |-> cfg.accountId, TunnelSecret |-> tok, TunnelID |-> info.id]

\* the object createCredentialsFile serialises
Credentials(cfg, info, tok) ==
  [AccountTag |-> cfg.accountId,
   TunnelSecret |-> IF info.tunnelSecret # Null THEN info.tunnelSecret ELSE tok,
   TunnelID |-> info.id]

\* getCredentialsPath(tunnelId): <credentials dir>/<tunnelId>.json
getCredentialsPath(tunnelId) == <<"credentials", tunnelId>>

FallbackWarning_never(info) == <<>>

\* if (!tunnelInfo.tunnelSecret) this.logger.warn(...): what is logged before
\* the credentials are built
FallbackWarning(info) ==
  IF info.tunnelSecret = Null THEN << Step("warn fallback") >> ELSE <<>>

\* verifyPermissions(filePath, expectedMode) where stat is stats.mode & 0o777
\* of the file (Null when getStats finds no file)
verifyPermissions(isWindows, stat, expectedMode) ==
  IF isWindows THEN [ok |-> TRUE, actualMode |-> Null]
  ELSE IF stat = Null THEN [ok |-> FALSE, actualMode |-> Null]
  ELSE [ok |-> stat[1] = expectedMode, actualMode |-> stat]

\* createCredentialsFile(tunnelInfo, token): warn on fallback, writeJson with
\* mode 0600, verifyPermissions and a warning when it is not ok.  A platform
\* says whether it is Windows and which mode the written file ends up with
\* (writeJson swallows a failing chmod and skips it on Windows).
CreateCredentialsFileOn(platforms) ==
  /\ pc = "creds"
  /\ LET path == getCredentialsPath(tunnelInfo.id)
         warn == FallbackWarning(tunnelInfo)
     IN \/ \E e \in platforms :
             LET permissionCheck == verifyPermissions(e.isWindows, e.stat, "600")
             IN /\ credFiles' = { f \in credFiles : f.path # path }
                                  \cup { [path |-> path,
                                          json |-> Credentials(config, tunnelInfo, token)] }
                /\ trace' = trace \o << Step("creds") >> \o warn
                                  \o << Step("write creds"), Ev("verify permissions", e) >>
                                  \o (IF permissionCheck.ok THEN <<>> ELSE << Step("warn mode") >>)
                /\ pc' = AfterStep("creds", FALSE)
                /\ UNCHANGED << thrown, rejected >>
        \/ /\ trace' = trace \o << Step("creds") >> \o warn
           /\ Throw("creds", Err("Error", "writeJson", Len(trace) + 1))
           /\ UNCHANGED credFiles
  /\ UNCHANGED << config, callVars, providerVars, configFile, pidFile, daemonVars, verifyVars, run,
                  idx, tunnelInfo, token, tunnelData, report, calls, history >>

\* the step in a run: a POSIX runner on which the file ends up with mode 0600
CreateCredentialsFile ==
  CreateCredentialsFileOn({ [isWindows |-> FALSE, stat |-> << "600" >>] })

\* the step on any runner: POSIX with the mode as asked, with another mode
\* (an existing .tmp file or a chmod without effect), with the file gone
\* again, or Windows
CreateCredentialsFileAnywhere ==
  CreateCredentialsFileOn({ [isWindows |-> FALSE, stat |-> << "600" >>],
                            [isWindows |-> FALSE, stat |-> << "644" >>],
                            [isWindows |-> FALSE, stat |-> Null],
                            [isWindows |-> TRUE, stat |-> << "666" >>] })

\* processTunnel: for (const service of plan.services) await this.setupDnsRecord(...)
SetupDnsRecord ==
  /\ pc = "dns"
  /\ LET services == config.plan.services
         host == services[idx].hostname
     IN \E o \in getOrCreateDnsRecord(config, dnsRecords, host, tunnelInfo.id, Len(trace) + 1) :
          LET c == setupDnsRecord(o)
          IN /\ dnsRecords' = o.recs
             /\ trace' = trace \o << Ev("dns", host) >> \o o.reqs
                            \o (IF o.ok THEN <<>> ELSE << Ev("dns threw", host) >>)
                            \o (IF c.warned THEN << Ev("warn dns", host) >> ELSE <<>>)
             /\ IF c.threw
                  THEN Throw("dns", c.err) /\ UNCHANGED idx
                  ELSE /\ UNCHANGED << thrown, rejected >>
                       /\ IF idx < Len(services)
                            THEN idx' = idx + 1 /\ pc' = "dns"
                            ELSE idx' = idx /\ pc' = AfterStep("dns", FALSE)
  /\ UNCHANGED << config, callVars, tunnels, fileVars, daemonVars, verifyVars, run, tunnelInfo,
                  token, tunnelData, report, calls, history >>

\* processTunnel: this.tunnelData = { tunnelInfo, token, credentialsPath, services }
StoreTunnelData ==
  /\ pc = "store"
  /\ tunnelData' = << [tunnelInfo |-> tunnelInfo, token |-> token,
                       credentialsPath |-> getCredentialsPath(tunnelInfo.id),
                       services |-> config.plan.services] >>
  /\ trace' = Append(trace, Step("store"))
  /\ pc' = AfterStep("store", FALSE)
  /\ UNCHANGED << config, callVars, providerVars, fileVars, daemonVars, verifyVars, run, idx,
                  tunnelInfo, token, thrown, rejected, report, calls, history >>

NaN == 0 - 1

\* parseInt(text.trim(), 10)
ParseInt(text) ==
  CASE text = "101" -> 101 [] text = "102" -> 102 [] text = "103" -> 103
    [] text = "104" -> 104 [] text = "105" -> 105
    [] text = "0" -> 0 [] text = "22" -> 22 [] text = "80" -> 80 [] text = "443" -> 443
    [] text = "2222" -> 2222 [] text = "5432" -> 5432 [] text = "8080" -> 8080
    [] text = "9999" -> 9999 [] text = "65536" -> 65536
    [] OTHER -> NaN

\* Texts whose characters matter (protocol values) are sequences of pieces:
\* a word, a blank or "://".  String.prototype.trim
RECURSIVE trim(_)
trim(text) ==
  IF text = <<>> THEN text
  ELSE IF Head(text) = " " THEN trim(Tail(text))
  ELSE IF text[Len(text)] = " " THEN trim(SubSeq(text, 1, Len(text) - 1))
  ELSE text

\* String.prototype.toLowerCase on a word
LowerWord(w) ==
  CASE w = "HTTPS" -> "https" [] w = "HTTP" -> "http" [] w = "SSH" -> "ssh"
    [] w = "TCP" -> "tcp" [] w = "SSH-box" -> "ssh-box" [] OTHER -> w

toLowerCase(text) == [i \in 1..Len(text) |-> LowerWord(text[i])]

\* text.replace(/:\/\//g, "")
StripSlashes(text) == SelectSeq(text, LAMBDA w : w # "://")

\* normalizeProtocol(protocol): "" for a missing one, else trimmed, lower-cased,
\* without "://"
normalizeProtocol(protocol) ==
  IF protocol = <<>> THEN <<>> ELSE StripSlashes(toLowerCase(trim(protocol)))

HttpPorts == {80, 3000, 3001, 3002, 3003, 4200, 5000, 5173, 8080, 8081}
TcpPorts == {1433, 1521, 27017, 3306, 5432, 6379}

\* name.includes("ssh") on a lower-cased name
IncludesSsh(name) == name \in {"ssh", "ssh-box"}

inferProtocol_portFirst(tunnel) ==
  LET portNum == ParseInt(tunnel.port)
  IN  IF portNum = 443 THEN <<"https">>
      ELSE IF portNum \in HttpPorts THEN <<"http">>
      ELSE IF portNum = 22 \/ portNum = 2222 \/ IncludesSsh(LowerWord(tunnel.name))
        THEN <<"ssh">>
      ELSE <<"tcp">>

\* inferProtocol(tunnel): by port and name
inferProtocol(tunnel) ==
  LET portNum == ParseInt(tunnel.port)
      name == LowerWord(tunnel.name)
  IN  IF portNum = 22 \/ portNum = 2222 \/ IncludesSsh(name) THEN <<"ssh">>
      ELSE IF portNum = 443 THEN <<"https">>
      ELSE IF portNum \in HttpPorts THEN <<"http">>
      ELSE IF portNum \in TcpPorts THEN <<"tcp">>
      ELSE <<"tcp">>

\* tunnel.protocol, undefined for a service that declares none
ProtocolOf(tunnel) == IF "protocol" \in DOMAIN tunnel THEN tunnel.protocol ELSE <<>>

\* buildServiceUrl(tunnel): `${protocol}://${tunnel.ip}:${tunnel.port}`
buildServiceUrl(tunnel) ==
  LET normalizedProtocol == normalizeProtocol(ProtocolOf(tunnel))
  IN  [scheme |-> IF normalizedProtocol # <<>> THEN normalizedProtocol
                  ELSE inferProtocol(tunnel),
       ip |-> tunnel.ip, port |-> tunnel.port]

\* the catch-all rule { service: "http_status:404" }: it has no hostname
CatchAll ==
  [hostname |-> Null, service |-> [scheme |-> <<"http_status">>, ip |-> "", port |-> "404"]]

ConfigObject_catchAllFirst(data) ==
  [tunnel |-> data.tunnelInfo.id,
   credentialsFile |-> data.credentialsPath,
   ingress |-> << CatchAll >>
               \o [i \in 1..Len(data.services) |->
                     [hostname |-> data.services[i].hostname,
                      service |-> buildServiceUrl(data.services[i])]]]

\* the config object generateConfigFile builds from this.tunnelData
ConfigObject(data) ==
  [tunnel |-> data.tunnelInfo.id,
   credentialsFile |-> data.credentialsPath,
   ingress |-> [i \in 1..Len(data.services) |->
                  [hostname |-> data.services[i].hostname,
                   service |-> buildServiceUrl(data.services[i])]]
               \o << CatchAll >>]

\* generateConfigFile(): build the ingress list and writeText(config.yml)
GenerateConfigFile ==
  /\ pc = "config"
  /\ \/ /\ tunnelData # <<>>
        /\ configFile' = << ConfigObject(tunnelData[1]) >>
        /\ trace' = trace \o << Step("config"), Step("write config") >>
        /\ pc' = AfterStep("config", FALSE)
        /\ UNCHANGED << thrown, rejected >>
     \/ /\ trace' = Append(trace, Step("config"))
        /\ Throw("config", Err(IF tunnelData = <<>> THEN "TypeError" ELSE "Error",
                               "generateConfigFile", Len(trace) + 1))
        /\ UNCHANGED configFile
  /\ UNCHANGED << config, callVars, providerVars, credFiles, pidFile, daemonVars, verifyVars, run,
                  idx, tunnelInfo, token, tunnelData, report, calls, history >>

\* the pid the operating system gives the daemon spawned in run r
PidOfRun(r) == 100 + r

PidToString_hex(pid) ==
  CASE pid = 101 -> "65" [] pid = 102 -> "66" [] pid = 103 -> "67"
    [] pid = 104 -> "68" [] OTHER -> "69"

\* Number.prototype.toString on a pid
PidToString(pid) ==
  CASE pid = 101 -> "101" [] pid = 102 -> "102" [] pid = 103 -> "103"
    [] pid = 104 -> "104" [] OTHER -> "105"

\* startTunnels(): open the log for append, spawn detached, close the fd,
\* write the PID file, sleep
StartTunnels ==
  /\ pc = "start"
  /\ \/ \* the spawn yields a process; the PID file is written
        /\ alive' = alive \cup {PidOfRun(run)}
        /\ pidFile' = PidToString(PidOfRun(run))
        /\ trace' = trace \o << Step("start"), Step("open log"), Step("spawn"),
                                Step("close log"), Step("write pid") >>
        /\ pc' = AfterStep("start", FALSE)
        /\ UNCHANGED << thrown, rejected >>
     \/ \* the spawn yields a process; writing the PID file fails
        /\ alive' = alive \cup {PidOfRun(run)}
        /\ trace' = trace \o << Step("start"), Step("open log"), Step("spawn"),
                                Step("close log") >>
        /\ Throw("start", Err("Error", "writeText", Len(trace) + 1))
        /\ UNCHANGED pidFile
     \/ \* no process: child.pid is undefined and child.pid.toString() throws
        /\ trace' = trace \o << Step("start"), Step("open log"), Step("spawn failed"),
                                Step("close log") >>
        /\ Throw("start", Err("TypeError", "startTunnels", Len(trace) + 1))
        /\ UNCHANGED << alive, pidFile >>
     \/ \* getCloudflaredPath() resolved to null: spawn(null, ...) throws a TypeError
        /\ trace' = trace \o << Step("start"), Step("open log"), Step("spawn threw"),
                                Step("close log") >>
        /\ Throw("start", Err("TypeError", "spawnDetached", Len(trace) + 1))
        /\ UNCHANGED << alive, pidFile >>
  /\ attempt' = 1
  /\ UNCHANGED << config, callVars, providerVars, credFiles, configFile, log, appended, obs, surfaced,
                  run, idx, tunnelInfo, token, tunnelData, report, calls, history >>

(* ----------------------------- core/config ----------------------------- *)
MaxPort == 65535

\* list.filter((x, index) => list.indexOf(x) !== index): the repeated entries
Duplicates(list) ==
  SelectSeq([i \in 1..Len(list) |-> [x |-> list[i], index |-> i]],
            LAMBDA e : (CHOOSE j \in 1..Len(list) :
                          list[j] = e.x /\ \A k \in 1..(j - 1) : list[k] # e.x) # e.index)

\* the checks validate() makes on one entry of config.tunnels
TunnelErrors(tunnel) ==
  (IF tunnel.name = "" THEN {"name is required"} ELSE {})
  \cup (IF tunnel.hostname = <<>> THEN {"hostname is required"} ELSE {})
  \cup (IF tunnel.ip = "" THEN {"ip is required"} ELSE {})
  \cup (IF tunnel.port = "" THEN {"port is required"} ELSE {})
  \cup (IF ParseInt(tunnel.port) = NaN \/ ParseInt(tunnel.port) < 1
             \/ ParseInt(tunnel.port) > MaxPort
          THEN {"invalid port number"} ELSE {})

\* "Check for duplicate tunnel names"
DuplicateNames(tuns) ==
  IF Len(Duplicates([i \in 1..Len(tuns) |-> tuns[i].name])) > 0
    THEN {"Duplicate tunnel names found"} ELSE {}

DuplicateHostnames_allowed(tuns) == {}

\* "Check for duplicate hostnames"
DuplicateHostnames(tuns) ==
  IF Len(Duplicates([i \in 1..Len(tuns) |-> tuns[i].hostname])) > 0
    THEN {"Duplicate hostnames found"} ELSE {}

\* validate(config): the errors collected; ValidationError is thrown when there are any
validate(cfg) ==
  (IF cfg.apiKey = "" THEN {"CLOUDFLARED_API_KEY is required"} ELSE {})
  \cup (IF cfg.email = "" THEN {"CLOUDFLARED_EMAIL is required"} ELSE {})
  \cup (IF cfg.accountId = "" THEN {"CLOUDFLARED_ACCOUNT_ID is required"} ELSE {})
  \cup (IF Len(cfg.tunnels) = 0 THEN {"At least one tunnel configuration is required"} ELSE {})
  \cup UNION { TunnelErrors(cfg.tunnels[i]) : i \in 1..Len(cfg.tunnels) }
  \cup DuplicateNames(cfg.tunnels)
  \cup DuplicateHostnames(cfg.tunnels)

\* startTunnels / runTunnelStart: validate(config), then plan, then the manager
Validate ==
  /\ pc = "validate"
  /\ trace' = Append(trace, Step("validate"))
  /\ IF validate(config) = {}
       THEN pc' = AfterStep("validate", FALSE) /\ UNCHANGED << thrown, rejected >>
       ELSE Throw("validate", Err("ValidationError", "validate", Len(trace) + 1))
  /\ UNCHANGED << config, callVars, providerVars, fileVars, daemonVars, verifyVars, run, idx,
                  tunnelInfo, token, tunnelData, report, calls, history >>

(* ---------------------------- verifyTunnels ---------------------------- *)
Max(a, b) == IF a >= b THEN a ELSE b
Min(a, b) == IF a <= b THEN a ELSE b

Retries_plusOne(cfg) == Max(1, IF cfg.verifyRetries = 0 THEN 1 ELSE cfg.verifyRetries) + 1

\* const retries = Math.max(1, this.config.verifyRetries || 1)
Retries(cfg) == Max(1, IF cfg.verifyRetries = 0 THEN 1 ELSE cfg.verifyRetries)

\* readText(logPath) || "": an absent log reads as the empty string
LogNonEmpty(lg) == lg.lines > 0 \/ lg.partial

\* content.includes(marker)
Includes(lg, marker) == marker \in lg.markers

\* content.split("\n"): every newline-terminated line, then the text after the
\* last newline (the empty string when the content ends with a newline)
SplitCount(lg) == lg.lines + 1

\* lastLogContent.split("\n").slice(-20): how many segments are logged and
\* how many of them are lines of the log
LastLines(lg) ==
  LET segs == Min(TailLines, SplitCount(lg))
  IN [segments |-> segs, lines |-> IF lg.partial THEN segs ELSE segs - 1]

\* isProcessRunning(pid): process.kill(pid, 0) does not throw
isProcessRunning(pid, running) == pid \in running

SignalZero_terminate(pid, running) == running \ {pid}

\* process.kill(pid, 0): signal 0 only tests that the process exists; the
\* processes running after it is sent
SignalZero(pid, running) == running

Retry == [kind |-> "retry", msg |-> "", warn |-> FALSE, tail |-> <<>>]
Return(warn) == [kind |-> "return", msg |-> "", warn |-> warn, tail |-> <<>>]
ThrowProcessError(msg, tail) == [kind |-> "throw", msg |-> msg, warn |-> FALSE, tail |-> tail]

PidMissingOutcome_failFast(k, retries) == ThrowProcessError("PID file not found", <<>>)

\* if (!pidContent): retry unless this is the last attempt
PidMissingOutcome(k, retries) ==
  IF k < retries THEN Retry ELSE ThrowProcessError("PID file not found", <<>>)

DeadOutcome_lenient(k, retries, lg) == IF k < retries THEN Retry ELSE Return(TRUE)

\* if (!isProcessRunning(pid)): retry unless last; then log the tail and throw
DeadOutcome(k, retries, lg) ==
  IF k < retries THEN Retry
  ELSE ThrowProcessError("process died",
                         IF LogNonEmpty(lg) THEN << LastLines(lg) >> ELSE <<>>)

ErrorMarked_onlyError(lg) == Includes(lg, "error")

\* lastLogContent.includes("error") || lastLogContent.includes("failed")
ErrorMarked(lg) == Includes(lg, "error") \/ Includes(lg, "failed")

\* lastLogContent.includes("Registered tunnel connection")
SuccessMarked(lg) == Includes(lg, "Registered tunnel connection")

SuccessOutcome_noBreak(k, retries) == IF k < retries THEN Retry ELSE Return(FALSE)

\* success marker seen: log success and break
SuccessOutcome(k, retries) == Return(FALSE)

NoMarkerOutcome_strict(k, retries) ==
  IF k = retries THEN ThrowProcessError("not registered", <<>>) ELSE Retry

\* neither marker: warn on the last attempt, otherwise sleep and loop
NoMarkerOutcome(k, retries) == IF k = retries THEN Return(TRUE) ELSE Retry

\* one iteration of the for loop of verifyTunnels
VerifyOutcome(k, retries, pidText, running, lg) ==
  IF pidText = NoFile \/ pidText = "" THEN PidMissingOutcome(k, retries)
  ELSE IF ~isProcessRunning(ParseInt(pidText), running) THEN DeadOutcome(k, retries, lg)
  ELSE IF ErrorMarked(lg) THEN ThrowProcessError("check logs", <<>>)
  ELSE IF SuccessMarked(lg) THEN SuccessOutcome(k, retries)
  ELSE NoMarkerOutcome(k, retries)

\* verifyTunnels(): attempt number `attempt` of the loop
VerifyAttempt ==
  /\ pc = "verify"
  /\ LET retries == Retries(config)
         o == VerifyOutcome(attempt, retries, pidFile, alive, log)
     IN /\ obs' = Append(obs, [pidText |-> pidFile,
                               running |-> isProcessRunning(ParseInt(pidFile), alive),
                               log |-> log, result |-> o.kind, warn |-> o.warn])
        /\ surfaced' = o.tail
        /\ alive' = IF pidFile = NoFile \/ pidFile = ""
                      THEN alive ELSE SignalZero(ParseInt(pidFile), alive)
        /\ trace' = IF attempt = 1 THEN Append(trace, Step("verify")) ELSE trace
        /\ CASE o.kind = "retry" ->
                  /\ attempt' = attempt + 1
                  /\ UNCHANGED << pc, thrown, rejected >>
             [] o.kind = "return" ->
                  /\ pc' = AfterStep("verify", FALSE)
                  /\ UNCHANGED << attempt, thrown, rejected >>
             [] OTHER ->
                  /\ Throw("verify", Err("ProcessError", o.msg, Len(trace) + 1))
                  /\ UNCHANGED attempt
  /\ UNCHANGED << config, callVars, providerVars, fileVars, log, appended, run, idx, tunnelInfo,
                  token, tunnelData, report, calls, history >>

(* ------------------------- the detached daemon ------------------------- *)
\* The orchestrator observes the daemons only in verifyTunnels, so their steps
\* are interleaved there (after the sleep that opens every attempt).
LineKinds == { {}, {"error"}, {"failed"}, {"Registered tunnel connection"} }

\* a daemon process exits
DaemonExit ==
  /\ pc = "verify"
  /\ \E p \in alive : alive' = alive \ {p}
  /\ UNCHANGED << config, callVars, providerVars, fileVars, log, appended, verifyVars, run, pc, idx,
                  tunnelInfo, token, tunnelData, trace, thrown, rejected, report, calls,
                  history >>

\* a running daemon appends text to the log: a line, or the beginning of one
DaemonLog ==
  /\ pc = "verify"
  /\ alive # {}
  /\ appended < MaxAppends
  /\ \E m \in LineKinds, newline \in BOOLEAN :
       log' = [lines |-> log.lines + (IF newline THEN 1 ELSE 0),
               partial |-> ~newline,
               markers |-> log.markers \cup m]
  /\ appended' = appended + 1
  /\ UNCHANGED << config, callVars, providerVars, fileVars, alive, verifyVars, run, pc, idx,
                  tunnelInfo, token, tunnelData, trace, thrown, rejected, report, calls,
                  history >>

PidTexts == {NoFile, "", "junk", "101"}

\* something else rewrites or removes the PID file while verifyTunnels sleeps
PidFileChange ==
  /\ pc = "verify"
  /\ \E t \in PidTexts \ {pidFile} : pidFile' = t
  /\ UNCHANGED << config, callVars, providerVars, credFiles, configFile, daemonVars, verifyVars, run,
                  pc, idx, tunnelInfo, token, tunnelData, trace, thrown, rejected, report,
                  calls, history >>

(* --------------------------- startTunnels (API) ------------------------ *)
\* generateReport(): one entry per service, all marked running
Report(data) ==
  [success |-> TRUE, tunnelsConfigured |-> 1,
   tunnels |-> [i \in 1..Len(data.services) |->
                  [name |-> data.services[i].name, hostname |-> data.services[i].hostname,
                   tunnelId |-> data.tunnelInfo.id, status |-> "running"]]]

\* startTunnels: await manager.execute(); return manager.generateReport()
GenerateReport ==
  /\ pc = "verified"
  /\ trace' = Append(trace, Step("report"))
  /\ IF tunnelData # <<>>
       THEN /\ report' = << Report(tunnelData[1]) >>
            /\ pc' = "done"
            /\ UNCHANGED << thrown, rejected >>
       ELSE /\ pc' = "failed"
            /\ thrown' = Err("TypeError", "generateReport", Len(trace) + 1)
            /\ rejected' = thrown'
            /\ UNCHANGED report
  /\ UNCHANGED << config, callVars, providerVars, fileVars, daemonVars, verifyVars, run, idx,
                  tunnelInfo, token, tunnelData, calls, history >>

\* after a successful run the tool is invoked a second time with the same
\* configuration: a new TunnelManager (tunnelData null) against the provider,
\* the files and the daemon the first run left behind
NextRun ==
  /\ pc = "done"
  /\ history = <<>>
  /\ history' = << [pc |-> pc,
                    warned |-> { trace[i].key : i \in { j \in 1..Len(trace) :
                                                          trace[j].op = "warn dns" } }] >>
  /\ run' = run + 1
  /\ pc' = "validate"
  /\ idx' = 1
  /\ tunnelInfo' = NoInfo
  /\ token' = Null
  /\ tunnelData' = <<>>
  /\ trace' = <<>>
  /\ thrown' = NoError
  /\ rejected' = NoError
  /\ report' = <<>>
  /\ attempt' = 0
  /\ obs' = <<>>
  /\ surfaced' = <<>>
  /\ appended' = 0
  /\ UNCHANGED << config, callVars, providerVars, fileVars, log, alive, calls >>

(* --------------------------- specifications ---------------------------- *)
RunBlank ==
  /\ run = 1
  /\ idx = 1
  /\ tunnelInfo = NoInfo
  /\ token = Null
  /\ tunnelData = <<>>
  /\ trace = <<>>
  /\ thrown = NoError
  /\ rejected = NoError
  /\ report = <<>>
  /\ obs = <<>>
  /\ surfaced = <<>>
  /\ appended = 0
  /\ calls = <<>>
  /\ wire = <<>>
  /\ args = <<>>
  /\ ret = <<>>
  /\ exitCode = <<>>
  /\ disk = <<>>
  /\ history = <<>>

\* a first invocation: nothing on disk, no daemon, any provider state
Init ==
  /\ config \in Configs({MaxVerifyRetries})
  /\ tunnels \in InitialTunnels
  /\ dnsRecords \in InitialDnsRecords
  /\ credFiles = {}
  /\ configFile = <<>>
  /\ pidFile = NoFile
  /\ log = EmptyLog
  /\ alive = {}
  /\ pc = "validate"
  /\ attempt = 0
  /\ RunBlank

\* one invocation; the daemon may exit while it is verified, and what it
\* writes to the log meanwhile is explored under SpecVerify
Next ==
  \/ Validate
  \/ Install
  \/ SetupDirectories
  \/ ReconcileTunnel
  \/ FetchToken
  \/ CreateCredentialsFile
  \/ SetupDnsRecord
  \/ StoreTunnelData
  \/ GenerateConfigFile
  \/ StartTunnels
  \/ VerifyAttempt
  \/ DaemonExit
  \/ GenerateReport

Spec == Init /\ [][Next]_vars

\* two invocations in a row; the daemon stays up and silent meanwhile
NextRerun ==
  \/ Validate
  \/ Install
  \/ SetupDirectories
  \/ ReconcileTunnel
  \/ FetchToken
  \/ CreateCredentialsFile
  \/ SetupDnsRecord
  \/ StoreTunnelData
  \/ GenerateConfigFile
  \/ StartTunnels
  \/ VerifyAttempt
  \/ GenerateReport
  \/ NextRun

SpecRerun == Init /\ [][NextRerun]_vars

\* logs verifyTunnels can find: empty, or left by earlier daemons (append mode)
InitialLogs ==
  { EmptyLog }
  \cup
  { [lines |-> n, partial |-> p, markers |-> m] :
      n \in {1, TailLines - 1, TailLines}, p \in BOOLEAN,
      m \in SUBSET {"error", "failed", "Registered tunnel connection"} }

VerifyConfig(r) ==
  Config(<< Service("ci", SshHost) >>, ApiKey, Email, AccountId, Null,
         [zoneId |-> NoZone, zoneName |-> Null], r)

\* verifyTunnels() entered with any PID file, daemon and log
InitVerify ==
  /\ config \in { VerifyConfig(r) : r \in (0 - 1)..MaxVerifyRetries }
  /\ tunnels \in { << [id |-> 1, name |-> "ci"] >> }
  /\ dnsRecords = <<>>
  /\ credFiles = {}
  /\ configFile = <<>>
  /\ pidFile \in PidTexts
  /\ log \in InitialLogs
  /\ alive \in SUBSET {101}
  /\ pc = "verify"
  /\ attempt = 1
  /\ RunBlank

NextVerify ==
  \/ VerifyAttempt
  \/ DaemonExit
  \/ DaemonLog
  \/ PidFileChange

\* the timers verifyTunnels sleeps on always fire, so a pending attempt is made
SpecVerify == InitVerify /\ [][NextVerify]_vars /\ WF_vars(VerifyAttempt)

(* ---------------------- the client used on its own --------------------- *)
\* a caller invokes client.getOrCreateTunnel(name)
CallGetOrCreateTunnel ==
  /\ pc = "client"
  /\ Len(calls) < MaxCalls
  /\ \E name \in TunnelNames :
       \E o \in getOrCreateTunnel(tunnels, name, Len(calls) + 1) :
         /\ tunnels' = o.tuns
         /\ calls' = Append(calls, [name |-> name, ok |-> o.ok, info |-> o.info,
                                    creates |-> Len(SelectSeq(o.reqs,
                                       LAMBDA e : e.op = "POST tunnel"))])
  /\ UNCHANGED << config, callVars, dnsRecords, fileVars, daemonVars, verifyVars, run, pc, idx,
                  tunnelInfo, token, tunnelData, trace, thrown, rejected, report, history >>

\* a client against any of the initial tunnel lists, also the empty one
InitClient ==
  /\ config = VerifyConfig(0)
  /\ tunnels \in InitialTunnels \cup { <<>> }
  /\ dnsRecords = <<>>
  /\ credFiles = {}
  /\ configFile = <<>>
  /\ pidFile = NoFile
  /\ log = EmptyLog
  /\ alive = {}
  /\ pc = "client"
  /\ attempt = 0
  /\ RunBlank

SpecClient == InitClient /\ [][CallGetOrCreateTunnel]_vars

(* ------------------- the client's requests on the wire ----------------- *)
\* the request of an outcome that ended in an error, if one did: the last one
\* (a zone that is not found is thrown after a request that succeeded)
RequestFailed(o) == ~o.ok /\ o.err.from # "zoneNotFound"

\* how often each request of the outcome o can have been fetched
FetchCounts(o) ==
  LET allowed == [i \in 1..Len(o.reqs) |->
                    Fetches(~(i = Len(o.reqs) /\ RequestFailed(o)), o.err.name)]
  IN  { c \in [1..Len(o.reqs) -> 1..RequestMaxAttempts] :
          \A i \in 1..Len(o.reqs) : c[i] \in allowed[i] }

\* processTunnel's getOrCreateTunnel(plan.tunnelName), fetch by fetch
WireTunnel ==
  /\ pc = "wire tunnel"
  /\ \E o \in getOrCreateTunnel(tunnels, config.plan.tunnelName, 1) :
       \E c \in FetchCounts(o) :
         /\ wire' = wire \o OnTheWire(o.reqs, c)
         /\ tunnels' = o.tuns
         /\ tunnelInfo' = o.info
         /\ pc' = IF o.ok THEN "wire dns" ELSE "failed"
         /\ thrown' = o.err
  /\ UNCHANGED << config, args, ret, exitCode, disk, dnsRecords, fileVars, daemonVars, verifyVars, run, idx,
                  token, tunnelData, trace, rejected, report, calls, history >>

\* processTunnel's getOrCreateDnsRecord(service.hostname, tunnelInfo.id) for
\* the next service, fetch by fetch; an error is caught by setupDnsRecord
WireDnsRecord ==
  /\ pc = "wire dns"
  /\ LET services == config.plan.services
         host == services[idx].hostname
     IN \E o \in getOrCreateDnsRecord(config, dnsRecords, host, tunnelInfo.id, idx) :
          \E c \in FetchCounts(o) :
            /\ wire' = wire \o OnTheWire(o.reqs, c)
            /\ dnsRecords' = o.recs
            /\ IF idx < Len(services)
                 THEN idx' = idx + 1 /\ pc' = "wire dns"
                 ELSE idx' = idx /\ pc' = "wire done"
  /\ UNCHANGED << config, args, ret, exitCode, disk, tunnels, fileVars, daemonVars, verifyVars, run,
                  tunnelInfo, token, tunnelData, trace, thrown, rejected, report, calls,
                  history >>

\* the provider requests of one run that fronts a single service
InitWire ==
  /\ config \in { c \in Configs({1}) :
                    validate(c) = {} /\ c.tunnelToken = Null /\ Len(c.tunnels) = 1 }
  /\ tunnels \in InitialTunnels
  /\ dnsRecords \in InitialDnsRecords
  /\ credFiles = {}
  /\ configFile = <<>>
  /\ pidFile = NoFile
  /\ log = EmptyLog
  /\ alive = {}
  /\ pc = "wire tunnel"
  /\ attempt = 0
  /\ RunBlank

NextWire ==
  \/ WireTunnel
  \/ WireDnsRecord

SpecWire == InitWire /\ [][NextWire]_vars

(* ----------------------- functions called on their own ----------------- *)
\* no run in progress: nothing at the provider, on disk or running
Standalone ==
  /\ config = VerifyConfig(0)
  /\ tunnels = <<>>
  /\ dnsRecords = <<>>
  /\ credFiles = {}
  /\ configFile = <<>>
  /\ pidFile = NoFile
  /\ log = EmptyLog
  /\ alive = {}
  /\ attempt = 0
  /\ run = 1
  /\ idx = 1
  /\ tunnelInfo = NoInfo
  /\ token = Null
  /\ tunnelData = <<>>
  /\ trace = <<>>
  /\ thrown = NoError
  /\ rejected = NoError
  /\ report = <<>>
  /\ obs = <<>>
  /\ surfaced = <<>>
  /\ appended = 0
  /\ calls = <<>>
  /\ wire = <<>>
  /\ exitCode = <<>>
  /\ history = <<>>

\* operations that resolve or reject on each invocation, in any pattern
Operations ==
  { f \in [1..(MaxAttempts + 1) ->
             { Resolves(k) : k \in 1..(MaxAttempts + 1) }
             \cup { Rejects(Err(e, "fn", k)) : e \in FailKinds, k \in 1..(MaxAttempts + 1) }] :
      \A k \in 1..(MaxAttempts + 1) :
        f[k] = Resolves(k) \/ \E e \in FailKinds : f[k] = Rejects(Err(e, "fn", k)) }

\* a caller awaits retry(fn, { maxAttempts })
CallRetry ==
  /\ pc = "retry"
  /\ ret = <<>>
  /\ ret' = << retry(args[1].fn, args[1].maxAttempts, DefaultDelay, DefaultBackoff) >>
  /\ pc' = "returned"
  /\ UNCHANGED << config, wire, args, exitCode, disk, providerVars, fileVars, daemonVars, verifyVars, run,
                  idx, tunnelInfo, token, tunnelData, trace, thrown, rejected, report, calls,
                  history >>

InitRetry ==
  /\ Standalone
  /\ args \in { << [fn |-> f, maxAttempts |-> m] >> : f \in Operations, m \in 1..MaxAttempts }
  /\ ret = <<>>
  /\ disk = <<>>
  /\ pc = "retry"

SpecRetry == InitRetry /\ [][CallRetry]_vars

\* services as a library caller can declare them, with or without a protocol
UrlInputs ==
  { [name |-> nm, hostname |-> SshHost, ip |-> "localhost", port |-> p, protocol |-> pr] :
      nm \in {"", "ci", "ssh-box", "SSH-box"},
      p \in {"22", "2222", "443", "80", "8080", "5432", "9999"},
      pr \in { <<>>, <<"https">>, <<"HTTPS">>, <<" ", "ssh", " ">>, <<"tcp", "://">>,
               <<" ">>, <<"rdp">> } }

\* generateConfigFile calls this.buildServiceUrl(tunnel)
CallBuildServiceUrl ==
  /\ pc = "url"
  /\ ret = <<>>
  /\ ret' = << buildServiceUrl(args[1]) >>
  /\ pc' = "returned"
  /\ UNCHANGED << config, wire, args, exitCode, disk, providerVars, fileVars, daemonVars, verifyVars, run,
                  idx, tunnelInfo, token, tunnelData, trace, thrown, rejected, report, calls,
                  history >>

InitUrl ==
  /\ Standalone
  /\ args \in { << t >> : t \in UrlInputs }
  /\ ret = <<>>
  /\ disk = <<>>
  /\ pc = "url"

SpecUrl == InitUrl /\ [][CallBuildServiceUrl]_vars

\* a caller awaits client.getZoneIdByDomain(domain) on a client configured
\* with args[1].cfg
CallGetZoneIdByDomain ==
  /\ pc = "zone"
  /\ ret = <<>>
  /\ \E o \in getZoneIdByDomain(args[1].cfg, args[1].domain, 1) : ret' = << o >>
  /\ pc' = "returned"
  /\ UNCHANGED << config, wire, args, exitCode, disk, providerVars, fileVars, daemonVars,
                  verifyVars, run, idx, tunnelInfo, token, tunnelData, trace, thrown,
                  rejected, report, calls, history >>

\* any zone id and zone name configured or not, listed by the provider or
\* not; domains of one to four labels
InitZone ==
  /\ Standalone
  /\ args \in { << [cfg |-> [zoneId |-> id, zoneName |-> nm], domain |-> d] >> :
                   id \in {NoZone, "z1", "z9"},
                   nm \in {Null, ExampleCom, <<"other", "org">>, <<"com">>},
                   d \in {ExampleCom, <<"other", "org">>, <<"com">>, SshHost,
                          <<"a", "b", "example", "com">>} }
  /\ ret = <<>>
  /\ disk = <<>>
  /\ pc = "zone"

SpecZone == InitZone /\ [][CallGetZoneIdByDomain]_vars

\* a caller invokes plan(config) on the same configuration, once or again;
\* ret collects what the calls returned
CallPlan ==
  /\ pc = "plan"
  /\ Len(ret) < 2
  /\ ret' = Append(ret, plan(args[1].tunnels))
  /\ UNCHANGED << config, wire, args, exitCode, disk, providerVars, fileVars, daemonVars,
                  verifyVars, run, pc, idx, tunnelInfo, token, tunnelData, trace, thrown,
                  rejected, report, calls, history >>

\* config.tunnels as parseInput can return it: no service, or up to MaxServices
InitPlan ==
  /\ Standalone
  /\ args \in { << [tunnels |-> tuns] >> : tuns \in TunnelLists \cup { <<>> } }
  /\ ret = <<>>
  /\ disk = <<>>
  /\ pc = "plan"

SpecPlan == InitPlan /\ [][CallPlan]_vars

\* processTunnel has a tunnel, new or found, and a token, and calls
\* createCredentialsFile; an earlier run may have left a credentials file
InitCreds ==
  /\ config \in { Config(<< Service("ci", SshHost) >>, ApiKey, Email, AccountId, tok,
                          [zoneId |-> NoZone, zoneName |-> Null], 0) : tok \in {Null, EnvToken} }
  /\ tunnels \in InitialTunnels
  /\ dnsRecords = <<>>
  /\ tunnelInfo \in { [id |-> i, name |-> "ci", tunnelSecret |-> sec] :
                         i \in 1..3, sec \in {Null} \cup { generateTunnelSecret(j) : j \in 1..3 } }
  /\ token = IF config.tunnelToken # Null THEN config.tunnelToken
             ELSE ProviderToken(tunnelInfo.id)
  /\ credFiles \in { {}, { [path |-> getCredentialsPath(1),
                             json |-> Credentials(config, [id |-> 1, tunnelSecret |-> Null],
                                                  ProviderToken(1))] } }
  /\ configFile = <<>>
  /\ pidFile = NoFile
  /\ log = EmptyLog
  /\ alive = {}
  /\ attempt = 0
  /\ run = 1
  /\ idx = 1
  /\ tunnelData = <<>>
  /\ trace = <<>>
  /\ thrown = NoError
  /\ rejected = NoError
  /\ report = <<>>
  /\ obs = <<>>
  /\ surfaced = <<>>
  /\ appended = 0
  /\ calls = <<>>
  /\ wire = <<>>
  /\ args = <<>>
  /\ ret = <<>>
  /\ exitCode = <<>>
  /\ disk = <<>>
  /\ history = <<>>
  /\ pc = "creds"

SpecCreds ==
  /\ InitCreds
  /\ [][CreateCredentialsFileAnywhere]_vars

(* ------------------------------ fs-adapter ----------------------------- *)
\* what a file holds: the chunks written to it, in order
Contents == UNION { [1..n -> {"a", "b"}] : n \in 1..MaxChunks }

Absent == <<>>
File(text) == << text >>

\* const tmpPath = filePath + '.tmp' in writeJson; writeText has none
Target(fn) == IF fn = "writeJson" THEN "tmp" ELSE "dest"

Cleanup_none(fn, files) == files

\* catch (error) { if (exists(tmpPath)) fs.unlinkSync(tmpPath); throw error; }
\* in writeJson; writeText has no catch
Cleanup(fn, files) == IF fn = "writeJson" THEN [files EXCEPT !["tmp"] = Absent] ELSE files

\* fs.writeFileSync(path, content): open with flag 'w', which creates or
\* truncates the file; or the open fails
OpenForWrite ==
  /\ pc = "fs"
  /\ \/ /\ disk' = [disk EXCEPT ![Target(args[1].fn)] = File(<<>>)]
        /\ pc' = "writing"
        /\ UNCHANGED ret
     \/ /\ pc' = "threw"
        /\ ret' = << "threw", "open" >>
        /\ disk' = Cleanup(args[1].fn, disk)
  /\ UNCHANGED << config, wire, args, exitCode, providerVars, fileVars, daemonVars, verifyVars,
                  run, idx, tunnelInfo, token, tunnelData, trace, thrown, rejected, report,
                  calls, history >>

\* fs.writeFileSync: the next write(2) of the content, or its failure; the
\* catch of writeJson unlinks the temporary file, writeText has no catch
WriteChunk ==
  /\ pc = "writing"
  /\ LET target == Target(args[1].fn)
         written == disk[target][1]
     IN /\ Len(written) < Len(args[1].content)
        /\ \/ /\ disk' = [disk EXCEPT ![target] =
                                File(Append(written, args[1].content[Len(written) + 1]))]
              /\ UNCHANGED << pc, ret >>
           \/ /\ disk' = Cleanup(args[1].fn, disk)
              /\ pc' = "threw"
              /\ ret' = << "threw", "write" >>
  /\ UNCHANGED << config, wire, args, exitCode, providerVars, fileVars, daemonVars, verifyVars,
                  run, idx, tunnelInfo, token, tunnelData, trace, thrown, rejected, report,
                  calls, history >>

\* after the content is written: writeJson renames the temporary file onto
\* the destination (or the rename fails and the catch unlinks it); writeText
\* is done; the chmod that follows never throws
FinishWrite ==
  /\ pc = "writing"
  /\ disk[Target(args[1].fn)] = File(args[1].content)
  /\ IF args[1].fn = "writeJson"
       THEN \/ /\ disk' = [dest |-> disk["tmp"], tmp |-> Absent]
               /\ pc' = "returned"
               /\ ret' = << "returned" >>
            \/ /\ disk' = Cleanup(args[1].fn, disk)
               /\ pc' = "threw"
               /\ ret' = << "threw", "rename" >>
       ELSE /\ pc' = "returned"
            /\ ret' = << "returned" >>
            /\ UNCHANGED disk
  /\ UNCHANGED << config, wire, args, exitCode, providerVars, fileVars, daemonVars, verifyVars,
                  run, idx, tunnelInfo, token, tunnelData, trace, thrown, rejected, report,
                  calls, history >>

\* writeJson(filePath, data) or writeText(filePath, content) is called; the
\* destination is absent or holds what an earlier call wrote
InitFs ==
  /\ Standalone
  /\ args \in { << [fn |-> f, content |-> c, before |-> b] >> :
                   f \in {"writeJson", "writeText"}, c \in Contents,
                   b \in {Absent} \cup { File(o) : o \in Contents } }
  /\ ret = <<>>
  /\ disk = [dest |-> args[1].before, tmp |-> Absent]
  /\ pc = "fs"

NextFs ==
  \/ OpenForWrite
  \/ WriteChunk
  \/ FinishWrite

SpecFs == InitFs /\ [][NextFs]_vars

\* a caller awaits cloudflareRequest(endpoint, options); args[1][k] is what
\* the k-th fetch does
CallCloudflareRequest ==
  /\ pc = "request"
  /\ ret = <<>>
  /\ ret' = << cloudflareRequest(args[1]) >>
  /\ pc' = "returned"
  /\ UNCHANGED << config, wire, args, exitCode, disk, providerVars, fileVars, daemonVars,
                  verifyVars, run, idx, tunnelInfo, token, tunnelData, trace, thrown,
                  rejected, report, calls, history >>

InitRequest ==
  /\ Standalone
  /\ args \in { << f >> : f \in FetchPatterns }
  /\ ret = <<>>
  /\ disk = <<>>
  /\ pc = "request"

SpecRequest == InitRequest /\ [][CallCloudflareRequest]_vars

(* ------------------------- CloudflaredInstaller ------------------------ *)
BinPath == ".runner-data/bin/cloudflared"
TmpPath == ".runner-data/tmp/cloudflared"
ExePath == ".runner-data/bin/cloudflared.exe"
ChocoPath == "C:/ProgramData/chocolatey/bin/cloudflared.exe"
CustomPath == "/opt/cloudflared"
Command == "cloudflared"

\* getCloudflaredPath(): this.customPath if it exists, else "cloudflared" when
\* which/where finds one (which holds the binary found), else null
getCloudflaredPath(customPath, files, which) ==
  IF customPath # "" /\ customPath \in files THEN << customPath >>
  ELSE IF which # <<>> THEN << Command >>
  ELSE <<>>

\* isInstalled(): getCloudflaredPath() !== null
isInstalled(customPath, files, which) == getCloudflaredPath(customPath, files, which) # <<>>

\* install() on the machine w, the download, the mv and choco ending as env
\* says. this.customPath is the value the constructor copied; installLinux
\* and downloadWindowsBinary assign this.config.cloudflaredPath.
install(w, env) ==
  LET custom == w.customPath
      NotPlaced(err) ==
        [threw |-> TRUE, error |-> err, files |-> w.files, which |-> w.which,
         cloudflaredPath |-> w.customPath, installed |-> <<>>]
      Placed(path, dir, assigned) ==
        LET files2 == w.files \cup {path}
            which2 == IF w.which = <<>> /\ dir \in w.pathDirs THEN << path >> ELSE w.which
            verified == isInstalled(custom, files2, which2)
        IN  [threw |-> ~verified,
             error |-> IF verified THEN NoError ELSE Err("ProcessError", "install", 0),
             files |-> files2, which |-> which2,
             cloudflaredPath |-> IF assigned THEN path ELSE w.customPath,
             installed |-> << path >>]
  IN  IF isInstalled(custom, w.files, w.which)
        THEN [threw |-> FALSE, error |-> NoError, files |-> w.files, which |-> w.which,
              cloudflaredPath |-> w.customPath, installed |-> <<>>]
      ELSE IF w.platform = "win32"
        THEN IF w.choco
               THEN IF env.choco = 0 THEN Placed(ChocoPath, "choco", FALSE)
                    ELSE NotPlaced(Err("ProcessError", "installWindows", 0))
               ELSE IF env.download THEN Placed(ExePath, "bin", TRUE)
                    ELSE NotPlaced(Err("NetworkError", "downloadFile", 0))
      ELSE IF ~env.download THEN NotPlaced(Err("NetworkError", "downloadFile", 0))
      ELSE IF env.mv = 0 THEN Placed(BinPath, "bin", TRUE)
      ELSE Placed(TmpPath, "tmp", TRUE)

\* machines the installer runs on
Machines ==
  { [customPath |-> c, files |-> f, which |-> wh, platform |-> p, choco |-> ch,
     pathDirs |-> d] :
      c \in {"", CustomPath}, f \in {{}, {CustomPath}},
      wh \in {<<>>, << "/usr/bin/cloudflared" >>}, p \in {"linux", "win32"},
      ch \in BOOLEAN, d \in {{"choco"}, {"choco", "bin"}} }

\* installer.install(), then installer.getCloudflaredPath()
CallInstall ==
  /\ pc = "installer"
  /\ ret = <<>>
  /\ \E download \in BOOLEAN, mv \in 0..1, choco \in 0..1 :
       LET r == install(args[1], [download |-> download, mv |-> mv, choco |-> choco])
       IN  ret' = << [threw |-> r.threw, error |-> r.error, installed |-> r.installed,
                      cloudflaredPath |-> r.cloudflaredPath, which |-> r.which,
                      path |-> getCloudflaredPath(args[1].customPath, r.files, r.which)] >>
  /\ pc' = "returned"
  /\ UNCHANGED << config, wire, args, exitCode, disk, providerVars, fileVars, daemonVars,
                  verifyVars, run, idx, tunnelInfo, token, tunnelData, trace, thrown,
                  rejected, report, calls, history >>

InitInstall ==
  /\ Standalone
  /\ args \in { << w >> : w \in Machines }
  /\ ret = <<>>
  /\ disk = <<>>
  /\ pc = "installer"

SpecInstall == InitInstall /\ [][CallInstall]_vars

(* ----------------------------- the command line ----------------------- *)
\* spawnDetached: spawn(command, args, { detached: true, stdio }), child.unref()
spawnDetached_attached(pid) == [pid |-> pid, detached |-> FALSE, unref |-> FALSE]

spawnDetached(pid) == [pid |-> pid, detached |-> TRUE, unref |-> TRUE]

\* the processes left when the orchestrator process exits: a detached child
\* leads its own process group and outlives the parent
Survivors(running, r) ==
  IF spawnDetached(PidOfRun(r)).detached THEN running ELSE running \ {PidOfRun(r)}

handleError_apiUnknown(error) ==
  CASE error.name = "ValidationError" -> 2
    [] error.name = "NetworkError" -> 10
    [] error.name = "ProcessError" -> 20
    [] error.name = "ConfigError" -> 2
    [] OTHER -> 1

\* handleError(error, logger): process.exit(error.exitCode) for the five error
\* classes, process.exit(1) for anything else
handleError(error) ==
  CASE error.name = "ValidationError" -> 2
    [] error.name = "NetworkError" -> 10
    [] error.name = "ProcessError" -> 20
    [] error.name = "CloudflareApiError" -> 10
    [] error.name = "ConfigError" -> 2
    [] OTHER -> 1

\* parseInput(): CLOUDFLARED_TUNNEL_<i>.split(":") must give four parts
ParseInput ==
  /\ pc = "parse"
  /\ trace' = Append(trace, Step("parse"))
  /\ \E parts \in 3..5 :
       IF parts = 4
         THEN pc' = "validate" /\ UNCHANGED << thrown, rejected >>
         ELSE Throw("parse", Err("ConfigError", "parseInput", Len(trace) + 1))
  /\ UNCHANGED << config, callVars, providerVars, fileVars, daemonVars, verifyVars, run, idx,
                  tunnelInfo, token, tunnelData, report, calls, history >>

\* runTunnelStart: process.exit(0) after the report, handleError(error) in the catch
Exit ==
  /\ pc \in {"done", "failed"}
  /\ exitCode' = << IF pc = "done" THEN 0 ELSE handleError(rejected) >>
  /\ alive' = Survivors(alive, run)
  /\ pc' = "exited"
  /\ UNCHANGED << config, wire, args, ret, disk, providerVars, fileVars, log, appended, verifyVars,
                  run, idx, tunnelInfo, token, tunnelData, trace, thrown, rejected, report,
                  calls, history >>

\* the configurations the command line is run with: one or more of three
\* services, one of them with a port out of range
CliConfigs ==
  { Config(tuns, ApiKey, Email, AccountId, tok, [zoneId |-> "z1", zoneName |-> Null],
           MaxVerifyRetries)
    : tuns \in UNION { [1..n -> { Service("ci", SshHost), Service("db", WebHost),
                                  Tunnel("ci", SshHost, "localhost", "0") }]
                      : n \in 1..MaxServices },
      tok \in {Null, EnvToken} }

\* the log file an earlier run left behind: none, or one line of an earlier daemon
PriorLogs ==
  { EmptyLog }
  \cup { [lines |-> 1, partial |-> FALSE, markers |-> m] :
           m \in { {"error"}, {"Registered tunnel connection"} } }

\* the command line is invoked; earlier runs may have left a log behind
InitCli ==
  /\ config \in CliConfigs
  /\ tunnels \in InitialTunnels
  /\ dnsRecords \in InitialDnsRecords
  /\ credFiles = {}
  /\ configFile = <<>>
  /\ pidFile = NoFile
  /\ log \in PriorLogs
  /\ alive = {}
  /\ pc = "parse"
  /\ attempt = 0
  /\ RunBlank

\* the steps of the orchestrator process
Orchestrator ==
  \/ ParseInput
  \/ Validate
  \/ Install
  \/ SetupDirectories
  \/ ReconcileTunnel
  \/ FetchToken
  \/ CreateCredentialsFile
  \/ SetupDnsRecord
  \/ StoreTunnelData
  \/ GenerateConfigFile
  \/ StartTunnels
  \/ VerifyAttempt
  \/ GenerateReport
  \/ Exit

NextCli ==
  \/ Orchestrator
  \/ DaemonExit
  \/ DaemonLog

\* the orchestrator process keeps running until it exits; the daemon is an
\* independent process that may or may not exit or write
SpecCli == InitCli /\ [][NextCli]_vars /\ WF_vars(Orchestrator)

(* ============================== properties ============================= *)
Ops(tr) == [i \in 1..Len(tr) |-> tr[i].op]
Has(tr, op) == \E i \in 1..Len(tr) : tr[i].op = op
IsPrefix(a, b) == Len(a) <= Len(b) /\ \A i \in 1..Len(a) : a[i] = b[i]
PlanHosts == [i \in 1..Len(config.plan.services) |-> config.plan.services[i].hostname]

\* C1: two consecutive successful getOrCreateTunnel calls with the same name
\* return the same id, the second returns a null secret and issues no create.
C1_Idempotent ==
  \A i \in 1..(Len(calls) - 1) :
    (calls[i].ok /\ calls[i + 1].ok /\ calls[i].name = calls[i + 1].name)
      => /\ calls[i + 1].info.id = calls[i].info.id
         /\ calls[i + 1].info.tunnelSecret = Null
         /\ calls[i + 1].creates = 0

\* the first of the two calls created the tunnel, the second found it
C1_Witness ==
  \E i \in 1..(Len(calls) - 1) :
    /\ calls[i].ok /\ calls[i + 1].ok /\ calls[i].name = calls[i + 1].name
    /\ calls[i].creates = 1
    /\ calls[i].info.tunnelSecret # Null

\* C2 as stated: the second run, after a successful first run, issues no
\* create request for the tunnel or for any DNS record.
C2_NoCreateInSecondRun ==
  (history # <<>> /\ history[1].pc = "done")
    => ~Has(trace, "POST tunnel") /\ ~Has(trace, "POST dns")

\* C2 (amended): the second run issues no create request for the tunnel, and a
\* create request for a DNS record only for a service whose DNS step ended in
\* a warning in the first run.
C2_NoCreateForReconciled ==
  (history # <<>> /\ history[1].pc = "done")
    => /\ ~Has(trace, "POST tunnel")
       /\ \A i \in 1..Len(trace) :
            trace[i].op = "POST dns" => trace[i].key \in history[1].warned

\* the second run completed, looked up a record the first run created, created nothing
C2_Witness ==
  /\ history # <<>> /\ history[1].pc = "done" /\ history[1].warned = {}
  /\ pc = "done"
  /\ Has(trace, "GET dns")
  /\ ~Has(trace, "POST dns") /\ ~Has(trace, "POST tunnel")
  /\ \E i \in 1..Len(dnsRecords) : dnsRecords[i].type = "CNAME"

DnsOrigins == {"getZoneIdByDomain", "zoneNotFound", "listDnsRecords", "createDnsRecord"}
DnsAttempts == SelectSeq(trace, LAMBDA e : e.op = "dns")

\* C3: an error thrown by getOrCreateDnsRecord is caught and logged as a
\* warning; the remaining services are still attempted in plan order and the
\* run carries on with config generation.
C3_DnsNonFatal ==
  /\ thrown.from \notin DnsOrigins
  /\ \A i \in 1..Len(trace) :
       trace[i].op = "dns threw"
         => /\ i < Len(trace)
            /\ trace[i + 1] = Ev("warn dns", trace[i].key)
  /\ IsPrefix([i \in 1..Len(DnsAttempts) |-> DnsAttempts[i].key], PlanHosts)
  /\ (pc \in {"store", "config", "start", "verify", "verified", "done"} \/ Has(trace, "store"))
       => Len(DnsAttempts) = Len(PlanHosts)

\* the first of two services failed, the second was still attempted, the run completed
C3_Witness ==
  /\ pc = "done"
  /\ Len(PlanHosts) = 2
  /\ \E i \in 1..Len(trace) : trace[i] = Ev("dns threw", PlanHosts[1])
  /\ \E i \in 1..Len(trace) : trace[i] = Ev("dns", PlanHosts[2])
  /\ Has(trace, "write config") /\ Has(trace, "spawn")

TunnelStepOrigins == {"listTunnels", "createTunnel", "getTunnelToken", "writeJson"}

\* C4: when getOrCreateTunnel, getTunnelToken or the credentials write throws,
\* the run rejects with that very error and writes no routing config, spawns no
\* daemon and writes no PID file.
C4_FatalBeforeArtifacts ==
  thrown.from \in TunnelStepOrigins
    => /\ pc = "failed"
       /\ rejected = thrown
       /\ ~Has(trace, "write config") /\ ~Has(trace, "spawn") /\ ~Has(trace, "write pid")
       /\ configFile = <<>> /\ alive = {} /\ pidFile = NoFile

\* the credentials write failed after tunnel and token were obtained
C4_Witness ==
  /\ pc = "failed"
  /\ thrown.from = "writeJson"
  /\ Has(trace, "GET tunnels")
  /\ rejected.name = "Error"

StepOps == {"install", "dirs", "tunnel", "token", "creds", "dns", "store", "config",
            "start", "verify", "report"}
StepsTaken == Ops(SelectSeq(trace, LAMBDA e : e.op \in StepOps))
CanonicalOrder ==
  << "install", "dirs", "tunnel", "token", "creds" >>
  \o [i \in 1..Len(PlanHosts) |-> "dns"]
  \o << "store", "config", "start", "verify", "report" >>

Budget == IF config.verifyRetries >= 1 THEN config.verifyRetries ELSE 1
PidPresent(o) == o.pidText # NoFile /\ o.pidText # ""
ErrorSeen(o) == "error" \in o.log.markers \/ "failed" \in o.log.markers
SuccessSeen(o) == "Registered tunnel connection" \in o.log.markers
VerifyEnded == pc # "verify"
VerifyThrew == pc = "failed" /\ rejected.name = "ProcessError" /\ rejected = thrown

C7_ErrorMarkerTerminal ==
  \A i \in 1..Len(obs) :
    (PidPresent(obs[i]) /\ obs[i].running /\ ErrorSeen(obs[i]))
      => /\ i = Len(obs)
         /\ obs[i].result = "throw"
         /\ VerifyThrew

\* "failed" and the success marker both in the log, on a first attempt of several
C7_Witness ==
  /\ Len(obs) = 1
  /\ Budget > 1
  /\ obs[1].running
  /\ "failed" \in obs[1].log.markers
  /\ "error" \notin obs[1].log.markers
  /\ SuccessSeen(obs[1])
  /\ VerifyThrew

\* C8: an attempt that finds a live process, the success marker and no error
\* marker returns success and is the last attempt.
C8_SuccessShortCircuits ==
  \A i \in 1..Len(obs) :
    (obs[i].running /\ SuccessSeen(obs[i]) /\ ~ErrorSeen(obs[i]))
      => /\ i = Len(obs)
         /\ obs[i].result = "return"
         /\ ~obs[i].warn
         /\ pc = "verified"

\* success seen on the first attempt while attempts remained
C8_Witness ==
  /\ Len(obs) = 1
  /\ Budget > 1
  /\ obs[1].running /\ SuccessSeen(obs[1]) /\ ~ErrorSeen(obs[1])
  /\ pc = "verified"

DeadOnEveryAttempt ==
  \A i \in 1..Len(obs) : ParseInt(obs[i].pidText) # NaN /\ ~obs[i].running

\* the lines of the log: the newline-terminated ones and an unterminated last one
LogLineCount(lg) == lg.lines + (IF lg.partial THEN 1 ELSE 0)

\* C9: when every attempt finds the PID of a dead process, verifyTunnels makes
\* all its attempts, then logs the last 20 lines of the log and throws ProcessError.
C9_DeadProcessExhaustsRetries ==
  (VerifyEnded /\ DeadOnEveryAttempt)
    => /\ Len(obs) = Budget
       /\ VerifyThrew
       /\ LET lg == obs[Len(obs)].log
          IN IF LogLineCount(lg) = 0
               THEN surfaced = <<>>
               ELSE surfaced # <<>> /\ surfaced[1].lines = Min(TailLines, LogLineCount(lg))

\* C10: an attempt that finds a live process and neither marker returns
\* normally with a warning when it is the last one, and otherwise is followed
\* by another attempt.
C10_NoMarkerSoftSuccess ==
  \A i \in 1..Len(obs) :
    (obs[i].running /\ ~SuccessSeen(obs[i]) /\ ~ErrorSeen(obs[i]))
      => IF i = Budget
           THEN /\ i = Len(obs)
                /\ obs[i].result = "return"
                /\ obs[i].warn
                /\ pc = "verified"
           ELSE /\ obs[i].result = "retry"
                /\ Len(obs) > i \/ (pc = "verify" /\ attempt = i + 1)

\* two attempts without markers: the first retried, the last returned with a warning
C10_Witness ==
  /\ Len(obs) = 2
  /\ Budget = 2
  /\ \A i \in 1..2 : obs[i].running /\ ~SuccessSeen(obs[i]) /\ ~ErrorSeen(obs[i])
  /\ obs[1].result = "retry"
  /\ obs[2].warn
  /\ pc = "verified"

(* ------------------------ requests and retry --------------------------- *)
Lookup(create) ==
  IF create.op = "POST tunnel" THEN Ev("GET tunnels", <<>>) ELSE Ev("GET dns", create.key)

\* C11: between any two create requests sent for the same tunnel or DNS record
\* there is a lookup of that resource.
C11_CreateNeverResent ==
  \A i, j \in 1..Len(wire) :
    (i < j /\ wire[i].op \in {"POST tunnel", "POST dns"} /\ wire[j] = wire[i])
      => \E k \in (i + 1)..(j - 1) : wire[k] = Lookup(wire[i])

\* index of the first invocation that resolves, 0 when none does
FirstSuccess(fn) ==
  IF \E k \in DOMAIN fn : fn[k].ok
    THEN CHOOSE k \in DOMAIN fn : fn[k].ok /\ \A j \in 1..(k - 1) : ~fn[j].ok
    ELSE 0

\* C12 as stated: whenever some invocation would resolve, the first at index k,
\* retry invokes the operation min(k, maxAttempts) times and returns what
\* invocation k resolves with.
C12_ReturnsFirstSuccess ==
  (pc = "returned" /\ FirstSuccess(args[1].fn) # 0)
    => LET k == FirstSuccess(args[1].fn)
       IN /\ ret[1].invocations = Min(k, args[1].maxAttempts)
          /\ ~ret[1].threw
          /\ ret[1].value = args[1].fn[k].value

\* C12 (amended): retry invokes the operation min(k, maxAttempts) times, k being
\* the first invocation that resolves, and returns what that invocation
\* resolved with when k <= maxAttempts.
C12_RetryInvocations ==
  (pc = "returned" /\ FirstSuccess(args[1].fn) # 0)
    => LET k == FirstSuccess(args[1].fn)
           m == args[1].maxAttempts
       IN /\ ret[1].invocations = Min(k, m)
          /\ k <= m => (~ret[1].threw /\ ret[1].value = args[1].fn[k].value)

\* the operation resolved on its second invocation, with a third one to spare
C12_Witness ==
  /\ pc = "returned"
  /\ FirstSuccess(args[1].fn) = 2
  /\ args[1].maxAttempts = 3
  /\ ret[1].invocations = 2
  /\ ret[1].value = << 2 >>

\* C13: when every allowed attempt fails, retry rejects with the error of the
\* last attempt itself.
C13_LastErrorUnchanged ==
  (pc = "returned" /\ \A k \in 1..args[1].maxAttempts : ~args[1].fn[k].ok)
    => /\ ret[1].threw
       /\ ret[1].error = args[1].fn[args[1].maxAttempts].err
       /\ ret[1].invocations = args[1].maxAttempts

\* three attempts failed, the first with another kind of error than the last
C13_Witness ==
  /\ pc = "returned"
  /\ args[1].maxAttempts = 3
  /\ \A k \in 1..3 : ~args[1].fn[k].ok
  /\ args[1].fn[1].err.name # args[1].fn[3].err.name
  /\ ret[1].threw
  /\ ret[1].error.name = args[1].fn[3].err.name

C15_TokenOnlyWithoutSecret ==
  Has(trace, "GET token") => tunnelInfo.tunnelSecret = Null

\* C16: the ingress list has one rule per service, in the order of the
\* services and with their hostnames, then the catch-all rule, which is the
\* last entry and the only catch-all.
C16_IngressOrder ==
  configFile # <<>>
    => LET ingress == configFile[1].ingress
           services == config.plan.services
       IN /\ Len(ingress) = Len(services) + 1
          /\ \A i \in 1..Len(services) :
               /\ ingress[i].hostname = services[i].hostname
               /\ ingress[i].service.scheme # <<"http_status">>
          /\ ingress[Len(ingress)].hostname = Null
          /\ ingress[Len(ingress)].service.scheme = <<"http_status">>
          /\ ingress[Len(ingress)].service.port = "404"

\* a config for two services was written: three ingress entries
C16_Witness ==
  /\ configFile # <<>>
  /\ Len(config.plan.services) = 2
  /\ Len(configFile[1].ingress) = 3
  /\ configFile[1].ingress[2].hostname = config.plan.services[2].hostname

\* the protocol a declaration stands for, <<>> when it declares none
Declared(protocol) ==
  CASE protocol = <<"https">> -> <<"https">>
    [] protocol = <<"HTTPS">> -> <<"https">>
    [] protocol = <<" ", "ssh", " ">> -> <<"ssh">>
    [] protocol = <<"tcp", "://">> -> <<"tcp">>
    [] protocol = <<"rdp">> -> <<"rdp">>
    [] OTHER -> <<>>

Declares == config.tunnels
SharedName == \A i, j \in 1..Len(Declares) : Declares[i].name = Declares[j].name
DistinctHostnames ==
  \A i, j \in 1..Len(Declares) : i # j => Declares[i].hostname # Declares[j].hostname
DistinctNames == \A i, j \in 1..Len(Declares) : i # j => Declares[i].name # Declares[j].name
ValidPorts == \A i \in 1..Len(Declares) : Declares[i].port \in {"22", "443", "8080"}
Validated == Has(trace, "validate")
Rejected == pc = "failed" /\ thrown.name = "ValidationError" /\ rejected = thrown

\* C18: two or more services under one tunnel name, with distinct hostnames and
\* valid ports, pass validation and are planned under that tunnel name.
C18_SharedNameAccepted ==
  (Validated /\ Len(Declares) >= 2 /\ SharedName /\ DistinctHostnames /\ ValidPorts
     /\ config.accountId # "")
    => /\ ~Rejected
       /\ config.plan.tunnelName = Declares[1].name
       /\ config.plan.totalServices = Len(Declares)

\* C19: a list that declares one hostname twice is rejected by validate with a
\* ValidationError before any request to the provider, any credentials, config
\* or PID file and any daemon.
C19_DuplicateHostnameRejected ==
  (Validated /\ ~DistinctHostnames)
    => /\ Rejected
       /\ thrown.from = "validate"
       /\ trace = << Step("validate") >>
       /\ credFiles = {} /\ configFile = <<>> /\ pidFile = NoFile /\ alive = {}

\* two services with different names and the same hostname were rejected
C19_Witness ==
  /\ Rejected
  /\ Len(Declares) = 2
  /\ DistinctNames /\ ValidPorts /\ config.accountId # ""
  /\ Declares[1].hostname = Declares[2].hostname

CreatedRecords == SelectSeq(dnsRecords, LAMBDA r : r.type = "CNAME")

C21_IndependentOfDaemon ==
  /\ <>(pc = "exited")
  /\ [][Orchestrator => alive \subseteq alive']_vars

\* the orchestrator has exited after a run that launched a daemon, which still runs
C21_Witness ==
  /\ pc = "exited"
  /\ Has(trace, "spawn")
  /\ alive = {PidOfRun(run)}

LaunchFailed == Has(trace, "spawn failed") \/ Has(trace, "spawn threw")

\* C22: when the daemon fails to launch (no binary path, or no process id
\* from the spawn), the run fails with a ProcessError.
C22_LaunchFailureIsProcessError ==
  LaunchFailed => (pc = "failed" /\ rejected.name = "ProcessError")

ExpectedCode ==
  IF report # <<>> /\ rejected = NoError THEN 0
  ELSE IF rejected.name \in {"ValidationError", "ConfigError"} THEN 2
  ELSE IF rejected.name \in {"NetworkError", "CloudflareApiError"} THEN 10
  ELSE IF rejected.name = "ProcessError" THEN 20
  ELSE 1

\* C23: every run of the command line exits, with one code that never
\* changes: 0 after a report, 2 for ValidationError or ConfigError, 10 for
\* NetworkError or CloudflareApiError, 20 for ProcessError, 1 otherwise.
C23_ExitCodes ==
  /\ [](exitCode # <<>> => exitCode = << ExpectedCode >>)
  /\ [][exitCode # <<>> => exitCode' = exitCode]_vars
  /\ <>(exitCode # <<>>)

\* a run rejected by the provider has exited with code 10
C23_Witness ==
  /\ exitCode = << 10 >>
  /\ rejected.name = "CloudflareApiError"
  /\ pc = "exited"

(* ------------------------------ file writes ---------------------------- *)
\* C24: while writeJson or writeText writes a file, and after it, the
\* destination holds what it held before the call or the whole new content,
\* never a part of it.
C24_NeverPartial ==
  (pc \in {"writing", "returned", "threw"})
    => disk["dest"] \in {args[1].before, File(args[1].content)}

(* --------------------------- the log of earlier runs ------------------- *)
\* what the last attempt of verifyTunnels would have decided on the lines the
\* daemon of this run wrote, when it wrote none
OutcomeOnOwnLines ==
  LET o == obs[Len(obs)]
  IN  VerifyOutcome(Len(obs), Retries(config), o.pidText,
                    IF o.running THEN {ParseInt(o.pidText)} ELSE {}, EmptyLog).kind

\* C25: the outcome of verification is decided by the lines the daemon of
\* this run wrote: while that daemon has written nothing, every attempt
\* decides as it would on an empty log, whatever earlier runs left in the file.
C25_StaleMarkersIgnored ==
  (obs # <<>> /\ appended = 0) => obs[Len(obs)].result = OutcomeOnOwnLines

(* ------------------------------ DNS records ---------------------------- *)
\* the hostnames for which getOrCreateDnsRecord returned in this run
Returned ==
  { trace[i].key : i \in { j \in 1..Len(trace) : trace[j].op = "dns" } }
  \ { trace[i].key : i \in { j \in 1..Len(trace) : trace[j].op = "dns threw" } }

\* C26: once getOrCreateDnsRecord(hostname, tunnelId) has returned, the
\* provider holds a record of that name that is a CNAME to
\* <tunnelId>.cfargotunnel.com, also when a record of that name existed before.
C26_RecordPointsAtTunnel ==
  \A h \in Returned :
    \E i \in 1..Len(dnsRecords) :
      /\ dnsRecords[i].name = h
      /\ dnsRecords[i].type = "CNAME"
      /\ dnsRecords[i].content = << tunnelInfo.id, "cfargotunnel.com" >>

(* -------------------------------- install ------------------------------ *)
\* the binary a path returned by getCloudflaredPath() denotes
Denotes(path, which) == IF path = << Command >> THEN which ELSE path

\* C27: when cloudflared is not found at first and the binary is downloaded
\* and put in place, install() returns without error and getCloudflaredPath()
\* then gives the installed binary.
C27_InstalledIsFound ==
  (pc = "returned"
     /\ ~isInstalled(args[1].customPath, args[1].files, args[1].which)
     /\ ret[1].installed # <<>>)
    => /\ ~ret[1].threw
       /\ Denotes(ret[1].path, ret[1].which) = ret[1].installed

(* -------------------------------- the report --------------------------- *)
AllRunning ==
  /\ report[1].success
  /\ \A i \in 1..Len(report[1].tunnels) : report[1].tunnels[i].status = "running"

\* C28 as stated: a report with success true and every service "running"
\* exists only if verification saw the success marker in the daemon log.
C28_ReportOnlyAfterMarker ==
  (report # <<>> /\ AllRunning) => (obs # <<>> /\ SuccessSeen(obs[Len(obs)]))

\* C28, amended: such a report exists only if the last verification attempt
\* found the PID file naming a running process and no error marker in the
\* log, and either saw the success marker or was the final attempt, which
\* then ended with the "may still be initializing" warning.
C28_ReportOnlyAfterVerification ==
  (report # <<>> /\ AllRunning)
    => /\ obs # <<>>
       /\ LET o == obs[Len(obs)]
          IN /\ PidPresent(o)
             /\ o.running
             /\ ~ErrorSeen(o)
             /\ \/ SuccessSeen(o) /\ ~o.warn
                \/ ~SuccessSeen(o) /\ Len(obs) = Budget /\ o.warn

\* a report produced after the daemon of this run logged its registration
C28_Witness ==
  /\ report # <<>>
  /\ AllRunning
  /\ appended > 0
  /\ SuccessSeen(obs[Len(obs)])
  /\ Len(obs) < Budget

(* ------------------------------- onRetry ------------------------------- *)
\* C29: retry calls onRetry(error_k, k, w) once, and then sleeps w, after
\* every failed attempt k < maxAttempts, in order, with
\* w = delay * backoff^(k-1); there is no call after the attempt that
\* succeeded nor after attempt maxAttempts.
C29_OnRetryAfterEachFailure ==
  (pc = "returned")
    => LET r == ret[1]
           fn == args[1].fn
           n == r.invocations
       IN /\ Len(r.retried) = n - 1
          /\ n - 1 < args[1].maxAttempts
          /\ \A k \in 1..(n - 1) :
               /\ ~fn[k].ok
               /\ r.retried[k].error = fn[k].err
               /\ r.retried[k].attempt = k
               /\ r.retried[k].waitTime = DefaultDelay * (DefaultBackoff ^ (k - 1))
               /\ r.retried[k].slept = r.retried[k].waitTime
          /\ fn[n].ok \/ n = args[1].maxAttempts

\* two failures, then a success within a budget of three: onRetry was called
\* twice, with 1000 and 2000
C29_Witness ==
  /\ pc = "returned"
  /\ args[1].maxAttempts = 3
  /\ ~args[1].fn[1].ok /\ ~args[1].fn[2].ok /\ args[1].fn[3].ok
  /\ ~ret[1].threw
  /\ Len(ret[1].retried) = 2
  /\ ret[1].retried[1].waitTime = 1000
  /\ ret[1].retried[2].waitTime = 2000

(* ------------------------- answers of the provider --------------------- *)
\* the fetch that ended the request, and the response it resolved with
LastFetch == args[1][ret[1].fetches]
Answer == LastFetch.value[1]
ErrorAnswer == LastFetch.ok /\ (~Answer.httpOk \/ Answer.body = "failure")
OnlyFailuresRetried ==
  /\ ret[1].fetches <= RequestMaxAttempts
  /\ \A k \in 1..(ret[1].fetches - 1) : ~args[1][k].ok
  /\ ~LastFetch.ok => (ret[1].fetches = RequestMaxAttempts /\ ret[1].kind = "NetworkError")

\* C30 as stated: an answer with a non-success status or with success false
\* is not retried and is thrown as CloudflareApiError with the status and the
\* first error message; fetches that fail are retried, three in all, and
\* then thrown as NetworkError.
C30_ErrorAnswerIsApiError ==
  (pc = "returned")
    => /\ OnlyFailuresRetried
       /\ ErrorAnswer
            => /\ ~ret[1].ok
               /\ ret[1].kind = "CloudflareApiError"
               /\ ret[1].statusCode = StatusOf(Answer)
               /\ (Answer.body = "failure" => ret[1].message = "errors[0].message")

(* ------------------------ what verification touches -------------------- *)
\* the last attempt of verifyTunnels found the process of the PID file running
FoundRunning == obs # <<>> /\ obs[Len(obs)].running

\* C31: verifyTunnels leaves the daemon, the PID file and the log file as they
\* are on every path: no attempt changes the running processes, the PID file
\* or the log, and a daemon that was found alive by a verification that
\* failed is still alive afterwards.
C31_VerifyOnlyObserves ==
  /\ [][VerifyAttempt => (alive' = alive /\ pidFile' = pidFile /\ log' = log)]_vars
  /\ []((pc = "failed" /\ FoundRunning) => ParseInt(pidFile) \in alive)

C31_Witness ==
  /\ pc = "failed"
  /\ FoundRunning
  /\ rejected.name = "ProcessError"
  /\ 101 \in alive
  /\ Len(obs) = 2

(* ------------------------------ the launch ----------------------------- *)
\* where the step op is in the trace of this run (0 when it was not taken)
Pos(op) == FirstIndex(trace, LAMBDA e : e.op = op)

\* where the spawn attempt is in the trace of this run, however it went
SpawnPos == FirstIndex(trace, LAMBDA e : e.op \in {"spawn", "spawn failed", "spawn threw"})

PidMissing(i) == obs[i].pidText = NoFile \/ obs[i].pidText = ""

\* C33: an attempt that finds the PID file absent or empty is, when it is not
\* the last one, taken as still initializing and followed by another
\* attempt; on the last attempt verifyTunnels throws ProcessError.
C33_MissingPidFile ==
  /\ [](\A i \in 1..Len(obs) :
          PidMissing(i)
            => IF i < Retries(config)
                 THEN /\ obs[i].result = "retry"
                      /\ (Len(obs) = i) => (pc = "verify" /\ attempt = i + 1)
                 ELSE /\ obs[i].result = "throw"
                      /\ Len(obs) = i
                      /\ pc = "failed"
                      /\ rejected.name = "ProcessError"
                      /\ rejected.from = "PID file not found")
  /\ \A i \in 1..MaxVerifyRetries :
        (Len(obs) = i /\ PidMissing(i) /\ i < Retries(config)) ~> (Len(obs) > i)

C33_Witness ==
  /\ Len(obs) = 2
  /\ obs[1].pidText = NoFile
  /\ obs[1].result = "retry"
  /\ obs[2].pidText = ""
  /\ obs[2].result = "throw"
  /\ rejected.name = "ProcessError"

(* ------------------------- the fallback credential --------------------- *)
\* the credentials file this run wrote holds the connection token as its secret
TokenAsSecret ==
  \E f \in credFiles : f.path = getCredentialsPath(tunnelInfo.id) /\ f.json.TunnelSecret = token

ZoneFor(hostname) ==
  (CHOOSE z \in getZoneIdByDomain(config, LastTwoLabels(hostname), 0) : z.ok).zoneId

\* the provider holds a record of that zone whose name is exactly the hostname
RecordNamed(recs, zoneId, hostname) ==
  \E i \in 1..Len(recs) : recs[i].zone = zoneId /\ recs[i].name = hostname

\* what a step appended to the trace
Appended == SubSeq(trace', Len(trace) + 1, Len(trace'))

\* C35: getOrCreateDnsRecord issues a create request only after a lookup in
\* the resolved zone found no record with exactly the hostname as its name;
\* when the zone cannot be resolved it throws without listing or creating
\* any record.
C35_CreateOnlyAfterLookup ==
  [][SetupDnsRecord =>
       LET host == config.plan.services[idx].hostname
           zone == ZoneFor(host)
       IN /\ \A p \in 1..Len(Appended) :
               Appended[p].op = "POST dns"
                 => /\ Appended[p].key = host
                    /\ p > 1
                    /\ Appended[p - 1] = Ev("GET dns", host)
                    /\ zone # NoZone
                    /\ ~RecordNamed(dnsRecords, zone, host)
          /\ (zone = NoZone)
               => /\ \A p \in 1..Len(Appended) : Appended[p].op \notin {"GET dns", "POST dns"}
                  /\ \E p \in 1..Len(Appended) : Appended[p] = Ev("dns threw", host)
                  /\ dnsRecords' = dnsRecords]_vars

C35_Witness ==
  /\ pc = "store"
  /\ \E h \in {AppHost} :
       /\ Pos("POST dns") > 0
       /\ trace[Pos("POST dns")].key = h
       /\ RecordNamed(dnsRecords, "z1", h)
       /\ RecordNamed(dnsRecords, "z1", SshHost)

(* ---------------------------- resolving the zone ----------------------- *)
\* the id of the zone the provider lists under exactly that name, if any
IdOfZoneNamed(name) ==
  IF \E i \in 1..Len(ProviderZones) : ProviderZones[i].name = name
    THEN ProviderZones[CHOOSE i \in 1..Len(ProviderZones) : ProviderZones[i].name = name].id
    ELSE NoZone

\* the last two labels of a domain
RootOf(domain) ==
  IF Len(domain) < 2 THEN domain ELSE << domain[Len(domain) - 1], domain[Len(domain)] >>

\* C36: getZoneIdByDomain returns the configured zone id without any request
\* when one is configured; otherwise, with a zone name configured, the id of
\* the listed zone of exactly that name or nothing, never the guess;
\* otherwise the id of the listed zone named by the last two labels of the
\* domain, or nothing.
C36_ZoneResolution ==
  (pc = "returned")
    => LET cfg == args[1].cfg
           out == ret[1]
       IN IF cfg.zoneId # NoZone
            THEN out.ok /\ out.zoneId = cfg.zoneId /\ out.reqs = <<>>
            ELSE /\ out.reqs = << Ev("GET zones", <<>>) >>
                 /\ out.ok
                      => out.zoneId = IF cfg.zoneName # Null
                                        THEN IdOfZoneNamed(cfg.zoneName)
                                        ELSE IdOfZoneNamed(RootOf(args[1].domain))

C36_Witness ==
  /\ pc = "returned"
  /\ args[1].cfg = [zoneId |-> NoZone, zoneName |-> <<"other", "org">>]
  /\ args[1].domain = SshHost
  /\ ret[1].ok
  /\ ret[1].zoneId = NoZone

WrittenOn == trace[Pos("verify permissions")].key

\* the owner-only restriction was observed to have taken effect
Confirmed(e) == ~e.isWindows /\ e.stat = << "600" >>

\* C38: createCredentialsFile writes the credentials with mode 0600 and checks
\* the resulting mode afterwards; when the observed mode differs or cannot be
\* confirmed it logs a warning, and it completes all the same.
C38_UnconfirmedModeIsWarned ==
  (Pos("write creds") > 0)
    => /\ Pos("write creds") < Pos("verify permissions")
       /\ pc = AfterStep("creds", FALSE)
       /\ ~Confirmed(WrittenOn) => Pos("verify permissions") < Pos("warn mode")
       /\ Confirmed(WrittenOn) => Pos("warn mode") = 0

====
